---- MODULE Spec2Model ----
(***************************************************************************)
(* EPIC EHR MCP server: the OAuth client-credentials component (auth.py),  *)
(* the tool dispatcher (server.py call_tool) and the record-access tools   *)
(* (tools.py), as a state machine over the oauth_clients table, the        *)
(* clinical tables, the clock and the last response.                       *)
(*                                                                         *)
(* Representation of values:                                               *)
(*   - a generated client_id is a natural number (the random suffix);      *)
(*   - a plaintext secret is <<"urlsafe", n>> (secrets.token_urlsafe);     *)
(*   - a SHA-256 hex digest is <<"sha256", input>> (an ideal hash:         *)
(*     deterministic and collision-free);                                  *)
(*   - an HS256 signature is <<"hmac", key, signed input>> (an ideal MAC); *)
(*   - a JSON text is the sequence of its lexical items;                   *)
(*   - the clock counts whole seconds (the precision of exp and iat).      *)
(***************************************************************************)
EXTENDS Integers, Sequences, FiniteSets, TLC

(***************************************************************************)
(* Bounds of the model.                                                    *)
(***************************************************************************)
MaxClients == 2        \* rows of oauth_clients
MaxTokens == 2         \* distinct tokens signed by the server in one behaviour
MaxSkew == 1           \* seconds the clock may advance around an instant
MaxRows == 1           \* rows a write tool may add to one clinical table

(***************************************************************************)
(* Program constants.                                                      *)
(***************************************************************************)
ACCESS_TOKEN_EXPIRE_MINUTES == 60
ALGORITHM == "HS256"
DefaultSecretKey == "your-secret-key-change-in-production"

TokenLifetime == ACCESS_TOKEN_EXPIRE_MINUTES * 60   \* timedelta(minutes=...) in seconds

NoTime == -1           \* NULL in a DateTime column

VARIABLES
    oauth_clients,     \* the oauth_clients table: a sequence of rows in id order
    db,                \* the clinical tables: one sequence of rows (in id order) per table
    now,               \* the clock, in seconds
    JWT_SECRET_KEY,    \* the environment variable read at import ("" when unset)
    expiresAtExp,      \* PyJWT boundary rule: TRUE = a token is expired at now = exp
                       \* (PyJWT >= 2.6), FALSE = only at now > exp (2.0 .. 2.5)
    issued,            \* history: the tokens create_access_token has signed, with its inputs
    lastOp,            \* history: the last operation and its arguments
    handler,           \* history: the record-access handler the last call_tool invoked
    response,          \* the result of the last operation
    disclosed,         \* history: row index -> number of responses that carried its plaintext secret
    calls,             \* per server process: the call it is executing, step by step
    websocket,         \* one WebSocket connection: its message loop and what it has handled
    stream             \* one GET /sse stream: whether it is open and the events it has sent

vars == <<oauth_clients, db, now, JWT_SECRET_KEY, expiresAtExp,
          issued, lastOp, handler, response, disclosed, calls, websocket, stream>>

(***************************************************************************)
(* Input domains.                                                          *)
(***************************************************************************)
AppIds == {"app_a", "app_b"}
AppName == "Clinic App"
Roles == {"nurse", "doctor"}
ScopeLists == {<< >>, <<"read:vitals", "write:vitals">>}
Secret(n) == <<"urlsafe", n>>
Secrets == {Secret(n) : n \in 1..(MaxClients + 1)}
ClientIds == 1..(MaxClients + 1)
MRNs == 1..(MaxRows + 1)
EnvKeys == {"", "prod-key"}
AttackerKey == "attacker-key"

\* The instants the clock is sampled at: around the start, and around the
\* expiry of a token issued at the start.
Instants == (0..MaxSkew) \cup (TokenLifetime..(TokenLifetime + MaxSkew))

Range(f) == {f[x] : x \in DOMAIN f}

(***************************************************************************)
(* auth.py                                                                 *)
(***************************************************************************)
SECRET_KEY == IF JWT_SECRET_KEY = "" THEN DefaultSecretKey ELSE JWT_SECRET_KEY

\* A "hash" that keeps the secret as it is.
hash_secret_plain(secret) == secret

\* A hash salted with the time it is computed at.
hash_secret_salted(secret) == <<"sha256", secret, now>>

hash_secret(secret) == <<"sha256", secret>>

verify_secret(secret, secret_hash) == hash_secret(secret) = secret_hash


\* generate_client_credentials: the client_id is either a value no row
\* carries yet (the next one) or, by a collision of the generator, the
\* client_id of an existing row; the secret is a value never generated before.
generate_client_credentials(clients) ==
    {[client_id |-> c, client_secret |-> Secret(Len(clients) + 1)] :
        c \in 1..(Len(clients) + 1)}

\* The credentials generated when the generator does not collide.
Fresh(clients) ==
    [client_id |-> Len(clients) + 1, client_secret |-> Secret(Len(clients) + 1)]

\* json.dumps / json.loads on a list of strings: "[" item "," item ... "]".
RECURSIVE json_items(_)
json_items(list) ==
    IF list = << >> THEN << >>
    ELSE IF Len(list) = 1 THEN <<list[1]>>
    ELSE <<list[1], ",">> \o json_items(Tail(list))

json_dumps(list) == <<"[">> \o json_items(list) \o <<"]">>

\* A parser that keeps the separators.
json_loads_keeping_separators(text) == SubSeq(text, 2, Len(text) - 1)

json_loads(text) ==
    LET inner == SubSeq(text, 2, Len(text) - 1)
    IN  [i \in 1..((Len(inner) + 1) \div 2) |-> inner[2 * i - 1]]

\* " ".join(scopes)
RECURSIVE join_space(_)
join_space(list) ==
    IF list = << >> THEN << >>
    ELSE IF Len(list) = 1 THEN <<list[1]>>
    ELSE <<list[1], " ">> \o join_space(Tail(list))

(***************************************************************************)
(* PyJWT, as auth.py uses it: jwt.encode signs header and payload with the *)
(* key; jwt.decode checks the structure, the algorithm, the signature and  *)
(* then the exp claim.                                                     *)
(***************************************************************************)
hmac(key, header, payload) == <<"hmac", key, header, payload>>

jwt_encode(payload, key, algorithm) ==
    LET header == [alg |-> algorithm, typ |-> "JWT"]
    IN  [kind |-> "jwt", header |-> header, payload |-> payload,
         signature |-> hmac(key, header, payload)]

\* A decode that does not verify exp.
jwt_exp_never_passed(exp, t) == FALSE

jwt_exp_passed(exp, t) == IF expiresAtExp THEN exp <= t ELSE exp < t

\* A decode that does not verify the signature.
jwt_decode_unverified(token, key, algorithms, t) ==
    IF token.kind # "jwt"
    THEN [ok |-> FALSE, exc |-> "DecodeError"]
    ELSE IF "exp" \in DOMAIN token.payload /\ jwt_exp_passed(token.payload.exp, t)
    THEN [ok |-> FALSE, exc |-> "ExpiredSignatureError"]
    ELSE [ok |-> TRUE, payload |-> token.payload]

jwt_decode(token, key, algorithms, t) ==
    IF token.kind # "jwt"
    THEN [ok |-> FALSE, exc |-> "DecodeError"]
    ELSE IF token.header.alg \notin algorithms
    THEN [ok |-> FALSE, exc |-> "InvalidAlgorithmError"]
    ELSE IF token.signature # hmac(key, token.header, token.payload)
    THEN [ok |-> FALSE, exc |-> "InvalidSignatureError"]
    ELSE IF "exp" \in DOMAIN token.payload /\ jwt_exp_passed(token.payload.exp, t)
    THEN [ok |-> FALSE, exc |-> "ExpiredSignatureError"]
    ELSE [ok |-> TRUE, payload |-> token.payload]

\* A token whose scopes claim is the joined string.
create_access_token_joined(client_id, app_id, role, scopes, t_exp, t_iat) ==
    jwt_encode([client_id |-> client_id, app_id |-> app_id, role |-> role,
                scopes |-> join_space(scopes), type |-> "access",
                exp |-> t_exp + TokenLifetime, iat |-> t_iat],
               SECRET_KEY, ALGORITHM)

\* create_access_token; t_exp and t_iat are its two readings of the clock.
create_access_token(client_id, app_id, role, scopes, t_exp, t_iat) ==
    LET payload == [client_id |-> client_id,
                    app_id |-> app_id,
                    role |-> role,
                    scopes |-> scopes,
                    type |-> "access",
                    exp |-> t_exp + TokenLifetime,
                    iat |-> t_iat]
    IN  jwt_encode(payload, SECRET_KEY, ALGORITHM)

\* A verification that also looks the credential up and refuses an inactive one.
verify_token_checking_active(token, t) ==
    LET d == jwt_decode(token, SECRET_KEY, {ALGORITHM}, t)
    IN  IF d.ok
        THEN IF \E i \in 1..Len(oauth_clients) :
                    /\ oauth_clients[i].client_id = d.payload.client_id
                    /\ ~oauth_clients[i].is_active
             THEN [ok |-> FALSE, error |-> "Invalid token"]
             ELSE [ok |-> TRUE, payload |-> d.payload]
        ELSE IF d.exc = "ExpiredSignatureError"
        THEN [ok |-> FALSE, error |-> "Token has expired"]
        ELSE [ok |-> FALSE, error |-> "Invalid token"]

\* verify_token: the payload, or the ValueError it raises.
verify_token(token, t) ==
    LET d == jwt_decode(token, SECRET_KEY, {ALGORITHM}, t)
    IN  IF d.ok THEN [ok |-> TRUE, payload |-> d.payload]
        ELSE IF d.exc = "ExpiredSignatureError"
        THEN [ok |-> FALSE, error |-> "Token has expired"]
        ELSE [ok |-> FALSE, error |-> "Invalid token"]

\* A validation that does not look at the type tag.
validate_token_any_type(token, t) ==
    LET v == verify_token(token, t)
    IN  IF ~v.ok THEN [valid |-> FALSE, error |-> v.error]
        ELSE LET payload == v.payload
             IN  IF "client_id" \notin DOMAIN payload
                 THEN [valid |-> FALSE, error |-> "'client_id'"]
                 ELSE IF "app_id" \notin DOMAIN payload
                 THEN [valid |-> FALSE, error |-> "'app_id'"]
                 ELSE IF "role" \notin DOMAIN payload
                 THEN [valid |-> FALSE, error |-> "'role'"]
                 ELSE [valid |-> TRUE,
                       client_id |-> payload.client_id,
                       app_id |-> payload.app_id,
                       role |-> payload.role,
                       scopes |-> IF "scopes" \in DOMAIN payload
                                  THEN payload.scopes ELSE << >>]

validate_token(token, t) ==
    LET v == verify_token(token, t)
    IN  IF ~v.ok THEN [valid |-> FALSE, error |-> v.error]
        ELSE LET payload == v.payload
             IN  IF ~("type" \in DOMAIN payload /\ payload.type = "access")
                 THEN [valid |-> FALSE, error |-> "Invalid token type"]
                 ELSE IF "client_id" \notin DOMAIN payload
                 THEN [valid |-> FALSE, error |-> "'client_id'"]
                 ELSE IF "app_id" \notin DOMAIN payload
                 THEN [valid |-> FALSE, error |-> "'app_id'"]
                 ELSE IF "role" \notin DOMAIN payload
                 THEN [valid |-> FALSE, error |-> "'role'"]
                 ELSE [valid |-> TRUE,
                       client_id |-> payload.client_id,
                       app_id |-> payload.app_id,
                       role |-> payload.role,
                       scopes |-> IF "scopes" \in DOMAIN payload
                                  THEN payload.scopes ELSE << >>]

\* A check that reads the role of the payload without validating the token.
require_role_unvalidated(token, required_roles, t) ==
    /\ token.kind = "jwt"
    /\ "role" \in DOMAIN token.payload
    /\ token.payload.role \in required_roles

require_role(token, required_roles, t) ==
    LET validation == validate_token(token, t)
    IN  IF ~validation.valid THEN FALSE
        ELSE validation.role \in required_roles

\* A check that reads the scopes of the payload without validating the token.
require_scope_unvalidated(token, required_scope, t) ==
    /\ token.kind = "jwt"
    /\ "scopes" \in DOMAIN token.payload
    /\ required_scope \in Range(token.payload.scopes)

require_scope(token, required_scope, t) ==
    LET validation == validate_token(token, t)
    IN  IF ~validation.valid THEN FALSE
        ELSE required_scope \in Range(validation.scopes)

\* A query without the is_active filter.
matching_clients_any_status(clients, client_id, app_id) ==
    {i \in 1..Len(clients) :
        /\ clients[i].client_id = client_id
        /\ clients[i].app_id = app_id}

\* The query of authenticate_client: the rows matching client_id, app_id
\* and is_active, in id order; .first() is the first of them.
matching_clients(clients, client_id, app_id) ==
    {i \in 1..Len(clients) :
        /\ clients[i].client_id = client_id
        /\ clients[i].app_id = app_id
        /\ clients[i].is_active}

first_client(clients, client_id, app_id) ==
    LET m == matching_clients(clients, client_id, app_id)
    IN  CHOOSE i \in m : \A j \in m : i <= j

\* The two error dicts of authenticate_client: no matching row, wrong secret.
ClientNotFound == [status |-> "error", message |-> "Invalid client credentials"]

SecretMismatchTold == [status |-> "error", message |-> "Invalid client secret"]

SecretMismatch == [status |-> "error", message |-> "Invalid client credentials"]

\* A success dict that echoes the secret presented.
token_response_with_secret(client, client_secret, access_token, scopes) ==
    [status |-> "success",
     access_token |-> access_token,
     token_type |-> "Bearer",
     expires_in |-> ACCESS_TOKEN_EXPIRE_MINUTES * 60,
     scope |-> join_space(scopes),
     client_info |-> [client_id |-> client.client_id,
                      client_secret |-> client_secret,
                      app_id |-> client.app_id,
                      app_name |-> client.app_name,
                      role |-> client.role]]

\* The success dict of authenticate_client, from the names in scope at its
\* return statement.
token_response(client, client_secret, access_token, scopes) ==
    [status |-> "success",
     access_token |-> access_token,
     token_type |-> "Bearer",
     expires_in |-> ACCESS_TOKEN_EXPIRE_MINUTES * 60,
     scope |-> join_space(scopes),
     client_info |-> [client_id |-> client.client_id,
                      app_id |-> client.app_id,
                      app_name |-> client.app_name,
                      role |-> client.role]]

\* An authentication that also stamps last_used when the secret is wrong.
authenticate_client_stamping_failures(clients, client_id, client_secret, app_id, t_exp, t_iat, t_used) ==
    IF matching_clients(clients, client_id, app_id) = {}
    THEN [result |-> ClientNotFound, clients |-> clients, signed |-> << >>]
    ELSE LET i == first_client(clients, client_id, app_id)
             client == clients[i]
             scopes == IF client.scopes # << >> THEN json_loads(client.scopes) ELSE << >>
             access_token == create_access_token(client.client_id, client.app_id,
                                                 client.role, scopes, t_exp, t_iat)
         IN  IF ~verify_secret(client_secret, client.client_secret_hash)
             THEN [result |-> SecretMismatch,
                   clients |-> [clients EXCEPT ![i].last_used = t_used],
                   signed |-> << >>]
             ELSE [result |-> token_response(client, client_secret, access_token, scopes),
                   clients |-> [clients EXCEPT ![i].last_used = t_used],
                   signed |-> <<[token |-> access_token,
                                 client_id |-> client.client_id,
                                 app_id |-> client.app_id,
                                 role |-> client.role,
                                 scopes |-> scopes,
                                 t_exp |-> t_exp,
                                 row |-> i]>>]

\* authenticate_client; t_exp, t_iat and t_used are its three readings of the
\* clock. The result carries the dict returned, the table after the commit
\* and the token signed (if any).
authenticate_client(clients, client_id, client_secret, app_id, t_exp, t_iat, t_used) ==
    IF matching_clients(clients, client_id, app_id) = {}
    THEN [result |-> ClientNotFound, clients |-> clients, signed |-> << >>]
    ELSE LET i == first_client(clients, client_id, app_id)
             client == clients[i]
         IN  IF ~verify_secret(client_secret, client.client_secret_hash)
             THEN [result |-> SecretMismatch, clients |-> clients, signed |-> << >>]
             ELSE LET scopes == IF client.scopes # << >>
                                THEN json_loads(client.scopes) ELSE << >>
                      access_token == create_access_token(client.client_id, client.app_id,
                                                          client.role, scopes, t_exp, t_iat)
                  IN  [result |-> token_response(client, client_secret, access_token, scopes),
                       clients |-> [clients EXCEPT ![i].last_used = t_used],
                       signed |-> <<[token |-> access_token,
                                     client_id |-> client.client_id,
                                     app_id |-> client.app_id,
                                     role |-> client.role,
                                     scopes |-> scopes,
                                     t_exp |-> t_exp,
                                     row |-> i]>>]

\* What the storage does during one call: it works, the query fails, or the
\* commit fails (OperationalError).
StorageOutcomes == {"ok", "lookup_fails", "commit_fails"}

\* A client_secret that is no string (a JSON number): it has no encode().
NumberSecret == <<"number", 12345>>
is_str(value) == value[1] # "number"

\* authenticate_client as its caller sees it: the dict returned, or the
\* exception that leaves the function (its try has a finally and no except).
authenticate_client_call(clients, client_id, client_secret, app_id, t_exp, t_iat, t_used, storage) ==
    IF storage = "lookup_fails"
    THEN [raised |-> TRUE, exc |-> "OperationalError", clients |-> clients, signed |-> << >>]
    ELSE IF matching_clients(clients, client_id, app_id) # {} /\ ~is_str(client_secret)
    THEN [raised |-> TRUE, exc |-> "AttributeError", clients |-> clients, signed |-> << >>]
    ELSE LET a == authenticate_client(clients, client_id, client_secret, app_id,
                                      t_exp, t_iat, t_used)
         IN  IF storage = "commit_fails" /\ a.signed # << >>
             THEN [raised |-> TRUE, exc |-> "OperationalError", clients |-> clients,
                   signed |-> << >>]
             ELSE [raised |-> FALSE, result |-> a.result, clients |-> a.clients,
                   signed |-> a.signed]

\* A registration into a table whose client_id column is not unique.
register_client_without_unique(clients, app_id, app_name, role, scopes, credentials) ==
    [result |-> [status |-> "success",
                 client_id |-> credentials.client_id,
                 client_secret |-> credentials.client_secret,
                 app_id |-> app_id,
                 app_name |-> app_name,
                 role |-> role,
                 scopes |-> scopes,
                 message |-> "IMPORTANT: Save the client_secret securely. It cannot be retrieved again!"],
     clients |-> Append(clients, [client_id |-> credentials.client_id,
                                  client_secret_hash |-> hash_secret(credentials.client_secret),
                                  app_id |-> app_id,
                                  app_name |-> app_name,
                                  role |-> role,
                                  scopes |-> json_dumps(scopes),
                                  is_active |-> TRUE,
                                  last_used |-> NoTime])]

\* register_client with the credentials the generator produced. The insert
\* is rejected (IntegrityError, rolled back, reported) when a row already
\* carries the client_id: the column is unique.
register_client(clients, app_id, app_name, role, scopes, credentials) ==
    LET client_id == credentials.client_id
        client_secret == credentials.client_secret
        secret_hash == hash_secret(client_secret)
        client == [client_id |-> client_id,
                   client_secret_hash |-> secret_hash,
                   app_id |-> app_id,
                   app_name |-> app_name,
                   role |-> role,
                   scopes |-> json_dumps(scopes),
                   is_active |-> TRUE,
                   last_used |-> NoTime]
    IN  IF \E i \in 1..Len(clients) : clients[i].client_id = client_id
        THEN [result |-> [status |-> "error",
                          message |-> "IntegrityError: UNIQUE constraint failed: oauth_clients.client_id"],
              clients |-> clients]
        ELSE [result |-> [status |-> "success",
                          client_id |-> client_id,
                          client_secret |-> client_secret,
                          app_id |-> app_id,
                          app_name |-> app_name,
                          role |-> role,
                          scopes |-> scopes,
                          message |-> "IMPORTANT: Save the client_secret securely. It cannot be retrieved again!"],
              clients |-> Append(clients, client)]

\* register_client as its caller sees it: its except clause turns a failed
\* commit into an error dict, after a rollback.
register_client_call(clients, app_id, app_name, role, scopes, credentials, storage) ==
    IF storage = "commit_fails"
    THEN [raised |-> FALSE,
          result |-> [status |-> "error", message |-> "OperationalError"],
          clients |-> clients]
    ELSE LET r == register_client(clients, app_id, app_name, role, scopes, credentials)
         IN  [raised |-> FALSE, result |-> r.result, clients |-> r.clients]


(***************************************************************************)
(* tools.py: each tool yields the dict it returns or the message of the    *)
(* exception it raises, and the tables after its commit or rollback.       *)
(* A message built with an f-string is modelled by its fixed part.         *)
(***************************************************************************)
ValidDates == {"2025-01-15"}          \* the dates the record tools are called with

\* datetime.strptime(text, "%Y-%m-%d").date(): the date, whether or not
\* month and day are zero-padded; NoDate stands for the ValueError.
NoDate == <<0, 0, 0>>

strptime(text) ==
    CASE text \in {"2025-01-15", "2025-1-15"} -> <<2025, 1, 15>>
      [] text \in {"2025-01-16", "2025-1-16"} -> <<2025, 1, 16>>
      [] OTHER -> NoDate

\* date.isoformat(): zero-padded.
isoformat(date) ==
    CASE date = <<2025, 1, 15>> -> "2025-01-15"
      [] date = <<2025, 1, 16>> -> "2025-01-16"

Returns(result, tables) == [raised |-> FALSE, result |-> result, db |-> tables]
Raises(message, tables) == [raised |-> TRUE, message |-> message, db |-> tables]

AnyTerm == 0                          \* the empty search term: a substring of every MRN

find_patient(tables, mrn) ==
    {i \in 1..Len(tables.patients) : tables.patients[i].mrn = mrn}

PatientNotFound == "Patient with MRN not found"

get_patient_tool(tables, args) ==
    IF find_patient(tables, args.mrn) = {}
    THEN Raises(PatientNotFound, tables)
    ELSE LET patient == tables.patients[CHOOSE i \in find_patient(tables, args.mrn) : TRUE]
         IN  Returns([status |-> "success",
                      patient |-> [mrn |-> patient.mrn, dob |-> isoformat(patient.dob)]],
                     tables)

search_patients_tool(tables, args) ==
    LET found == {i \in 1..Len(tables.patients) :
                    args.search_term \in {AnyTerm, tables.patients[i].mrn}}
    IN  Returns([status |-> "success",
                 count |-> Cardinality(found),
                 patients |-> {tables.patients[i].mrn : i \in found}], tables)

\* A create_patient_tool that adds the row before it parses the dob and does
\* not roll back.
create_patient_tool_adding_first(tables, args, mrn) ==
    IF strptime(args.dob) = NoDate
    THEN Raises("time data does not match format '%Y-%m-%d'",
                [tables EXCEPT !.patients = Append(@, [mrn |-> mrn, dob |-> NoDate])])
    ELSE IF find_patient(tables, mrn) # {}
    THEN Raises("IntegrityError: UNIQUE constraint failed: patients.mrn", tables)
    ELSE Returns([status |-> "success",
                  message |-> "Patient created successfully",
                  patient |-> [mrn |-> mrn, dob |-> isoformat(strptime(args.dob))]],
                 [tables EXCEPT !.patients =
                     Append(@, [mrn |-> mrn, dob |-> strptime(args.dob)])])

\* create_patient_tool; mrn is the MRN uuid4 produced. strptime raises on an
\* unparsable dob; the insert is rejected when a row already carries the MRN.
create_patient_tool(tables, args, mrn) ==
    IF strptime(args.dob) = NoDate
    THEN Raises("time data does not match format '%Y-%m-%d'", tables)
    ELSE IF find_patient(tables, mrn) # {}
    THEN Raises("IntegrityError: UNIQUE constraint failed: patients.mrn", tables)
    ELSE Returns([status |-> "success",
                  message |-> "Patient created successfully",
                  patient |-> [mrn |-> mrn, dob |-> isoformat(strptime(args.dob))]],
                 [tables EXCEPT !.patients =
                     Append(@, [mrn |-> mrn, dob |-> strptime(args.dob)])])

get_appointments_tool(tables, args) ==
    IF find_patient(tables, args.mrn) = {}
    THEN Raises(PatientNotFound, tables)
    ELSE LET status == IF "status" \in DOMAIN args THEN args.status ELSE "all"
             found == {i \in 1..Len(tables.appointments) :
                         /\ tables.appointments[i].mrn = args.mrn
                         /\ status \in {"all", tables.appointments[i].status}}
         IN  Returns([status |-> "success", mrn |-> args.mrn,
                      appointments |->
                          {[tables.appointments[i] EXCEPT !.date = isoformat(@)] :
                              i \in found}], tables)

\* A schedule_appointment_tool that does not look for a conflict.
schedule_appointment_tool_unchecked(tables, args, apt_id) ==
    IF find_patient(tables, args.mrn) = {}
    THEN Raises(PatientNotFound, tables)
    ELSE IF args.provider_npi \notin tables.providers
    THEN Raises("Provider with NPI not found", tables)
    ELSE IF strptime(args.date) = NoDate
    THEN Raises("time data does not match format '%Y-%m-%d'", tables)
    ELSE IF \E i \in 1..Len(tables.appointments) :
                tables.appointments[i].appointment_id = apt_id
    THEN Raises("IntegrityError: UNIQUE constraint failed: appointments.appointment_id", tables)
    ELSE LET appointment == [appointment_id |-> apt_id, mrn |-> args.mrn,
                             npi |-> args.provider_npi, date |-> strptime(args.date),
                             time |-> args.time, status |-> "scheduled"]
         IN  Returns([status |-> "success",
                      message |-> "Appointment scheduled successfully",
                      appointment |-> [appointment_id |-> apt_id,
                                       date |-> isoformat(appointment.date),
                                       time |-> appointment.time]],
                     [tables EXCEPT !.appointments = Append(@, appointment)])

\* Lines 159-181 of schedule_appointment_tool: the patient, the provider, the
\* date and the conflict query. Reads only.
check_for_conflicts(tables, args) ==
    IF find_patient(tables, args.mrn) = {}
    THEN Raises(PatientNotFound, tables)
    ELSE IF args.provider_npi \notin tables.providers
    THEN Raises("Provider with NPI not found", tables)
    ELSE IF strptime(args.date) = NoDate
    THEN Raises("time data does not match format '%Y-%m-%d'", tables)
    ELSE IF \E i \in 1..Len(tables.appointments) :
                /\ tables.appointments[i].npi = args.provider_npi
                /\ tables.appointments[i].date = strptime(args.date)
                /\ tables.appointments[i].time = args.time
                /\ tables.appointments[i].status = "scheduled"
    THEN Raises("Time slot already booked", tables)
    ELSE Returns([status |-> "free"], tables)

\* Lines 183-210 of schedule_appointment_tool: the row added and committed,
\* and the dict returned. The only constraint on the table is the unique
\* appointment_id.
add_appointment(tables, args, apt_id) ==
    IF \E i \in 1..Len(tables.appointments) :
           tables.appointments[i].appointment_id = apt_id
    THEN Raises("IntegrityError: UNIQUE constraint failed: appointments.appointment_id", tables)
    ELSE LET appointment == [appointment_id |-> apt_id, mrn |-> args.mrn,
                             npi |-> args.provider_npi, date |-> strptime(args.date),
                             time |-> args.time, status |-> "scheduled"]
         IN  Returns([status |-> "success",
                      message |-> "Appointment scheduled successfully",
                      appointment |-> [appointment_id |-> apt_id,
                                       date |-> isoformat(appointment.date),
                                       time |-> appointment.time]],
                     [tables EXCEPT !.appointments = Append(@, appointment)])

\* schedule_appointment_tool; apt_id is the appointment_id uuid4 produced.
schedule_appointment_tool(tables, args, apt_id) ==
    IF check_for_conflicts(tables, args).raised
    THEN check_for_conflicts(tables, args)
    ELSE add_appointment(tables, args, apt_id)

get_medications_tool(tables, args) ==
    IF find_patient(tables, args.mrn) = {}
    THEN Raises(PatientNotFound, tables)
    ELSE LET found == {i \in 1..Len(tables.medications) :
                         /\ tables.medications[i].mrn = args.mrn
                         /\ tables.medications[i].status = "active"}
         IN  Returns([status |-> "success", mrn |-> args.mrn,
                      medications |-> {tables.medications[i] : i \in found}], tables)

\* prescribe_medication_tool; med_id is the medication_id uuid4 produced.
prescribe_medication_tool(tables, args, med_id) ==
    IF find_patient(tables, args.mrn) = {}
    THEN Raises(PatientNotFound, tables)
    ELSE IF \E i \in 1..Len(tables.medications) :
                tables.medications[i].medication_id = med_id
    THEN Raises("IntegrityError: UNIQUE constraint failed: medications.medication_id", tables)
    ELSE LET medication == [medication_id |-> med_id, mrn |-> args.mrn,
                            name |-> args.medication_name, status |-> "active"]
         IN  Returns([status |-> "success",
                      message |-> "Medication prescribed successfully",
                      medication |-> medication],
                     [tables EXCEPT !.medications = Append(@, medication)])

\* The lab_results and allergies tables are written by no tool.
get_lab_results_tool(tables, args) ==
    IF find_patient(tables, args.mrn) = {}
    THEN Raises(PatientNotFound, tables)
    ELSE Returns([status |-> "success", mrn |-> args.mrn, lab_results |-> {}], tables)

get_vital_signs_tool(tables, args) ==
    IF find_patient(tables, args.mrn) = {}
    THEN Raises(PatientNotFound, tables)
    ELSE LET found == {i \in 1..Len(tables.vital_signs) :
                         tables.vital_signs[i].mrn = args.mrn}
         IN  Returns([status |-> "success", mrn |-> args.mrn,
                      vital_signs |-> {tables.vital_signs[i] : i \in found}], tables)

record_vital_signs_tool(tables, args) ==
    IF find_patient(tables, args.mrn) = {}
    THEN Raises(PatientNotFound, tables)
    ELSE LET vital_sign == [mrn |-> args.mrn,
                            heart_rate |-> IF "heart_rate" \in DOMAIN args
                                           THEN args.heart_rate ELSE 0]
         IN  Returns([status |-> "success",
                      message |-> "Vital signs recorded successfully"],
                     [tables EXCEPT !.vital_signs = Append(@, vital_sign)])

get_allergies_tool(tables, args) ==
    IF find_patient(tables, args.mrn) = {}
    THEN Raises(PatientNotFound, tables)
    ELSE Returns([status |-> "success", mrn |-> args.mrn, allergies |-> {}], tables)


(***************************************************************************)
(* server.py call_tool                                                     *)
(***************************************************************************)
AuthTools == {"authenticate", "register_client", "validate_token"}
RecordTools == {"get_patient", "search_patients", "create_patient", "get_appointments",
                "schedule_appointment", "get_medications", "prescribe_medication",
                "get_lab_results", "get_vital_signs", "record_vital_signs",
                "get_allergies"}
WriteTools == {"create_patient", "schedule_appointment", "prescribe_medication",
               "record_vital_signs"}

\* The parameters of the function a tool name is routed to.
required_params(name) ==
    CASE name = "authenticate" -> {"client_id", "client_secret", "app_id"}
      [] name = "register_client" -> {"app_id", "app_name", "role", "scopes"}
      [] name = "search_patients" -> {"access_token", "search_term"}
      [] name = "create_patient" -> {"access_token", "first_name", "last_name", "dob"}
      [] name = "schedule_appointment" ->
             {"access_token", "mrn", "provider_npi", "date", "time"}
      [] name = "prescribe_medication" ->
             {"access_token", "mrn", "medication_name", "dosage", "frequency"}
      [] OTHER -> {"access_token", "mrn"}

optional_params(name) ==
    CASE name = "register_client" -> {"description", "contact_email"}
      [] name = "create_patient" -> {"gender", "email", "phone"}
      [] name = "get_appointments" -> {"status"}
      [] name = "schedule_appointment" -> {"reason"}
      [] name = "prescribe_medication" -> {"refills"}
      [] OTHER -> {}

\* f(**arguments) raises TypeError unless the keys fit f's parameters
\* (record_vital_signs_tool takes **kwargs).
binds(name, arguments) ==
    /\ required_params(name) \subseteq DOMAIN arguments
    /\ \/ name = "record_vital_signs"
       \/ DOMAIN arguments \subseteq (required_params(name) \cup optional_params(name))

NoneToken == [kind |-> "none"]        \* arguments.get("access_token") of an absent key
EmptyToken == [kind |-> "empty"]      \* the empty string
GarbageToken == [kind |-> "text"]     \* a string that is no JWT

get_access_token(arguments) ==
    IF "access_token" \in DOMAIN arguments THEN arguments.access_token ELSE NoneToken

falsy(token) == token.kind \in {"none", "empty"}

invalid_token_message(error) ==
    CASE error = "Token has expired" -> "Invalid token: Token has expired"
      [] error = "Invalid token" -> "Invalid token: Invalid token"
      [] error = "Invalid token type" -> "Invalid token: Invalid token type"
      [] OTHER -> "Invalid token: KeyError"

error_result(name, message) == [status |-> "error", message |-> message, tool |-> name]

\* A validation that only looks for the presence of a token.
token_presence_error(arguments, t) ==
    IF falsy(get_access_token(arguments)) THEN "Access token required" ELSE ""

\* The token validation every other tool goes through: the message of the
\* ValueError raised, or "" when the token passes.
token_validation_error(arguments, t) ==
    LET access_token == get_access_token(arguments)
        token_validation == validate_token(access_token, t)
    IN  IF falsy(access_token) THEN "Access token required"
        ELSE IF ~token_validation.valid
        THEN invalid_token_message(token_validation.error)
        ELSE ""

\* The outcome of one call_tool: the result dict, both stores after it, the
\* record-access handler entered ("none" if none was) and the token signed.
outcome(result, clients, tables, entered, signed) ==
    [result |-> result, clients |-> clients, db |-> tables,
     handler |-> entered, signed |-> signed]

route(name, tables, args, id) ==
    CASE name = "get_patient" -> get_patient_tool(tables, args)
      [] name = "search_patients" -> search_patients_tool(tables, args)
      [] name = "create_patient" -> create_patient_tool(tables, args, id)
      [] name = "get_appointments" -> get_appointments_tool(tables, args)
      [] name = "schedule_appointment" -> schedule_appointment_tool(tables, args, id)
      [] name = "get_medications" -> get_medications_tool(tables, args)
      [] name = "prescribe_medication" -> prescribe_medication_tool(tables, args, id)
      [] name = "get_lab_results" -> get_lab_results_tool(tables, args)
      [] name = "get_vital_signs" -> get_vital_signs_tool(tables, args)
      [] name = "record_vital_signs" -> record_vital_signs_tool(tables, args)
      [] name = "get_allergies" -> get_allergies_tool(tables, args)

\* A dispatcher that validates the token before every tool, the three OAuth
\* tools included.
call_tool_gating_all(name, arguments, clients, tables, t, rnd) ==
    LET refused == token_validation_error(arguments, t)
    IN  IF refused # ""
        THEN outcome(error_result(name, refused), clients, tables, "none", << >>)
        ELSE IF name = "authenticate"
        THEN LET a == authenticate_client_call(clients, arguments.client_id,
                                               arguments.client_secret, arguments.app_id,
                                               t, rnd.t_iat, rnd.t_used, rnd.storage)
             IN  IF a.raised
                 THEN outcome(error_result(name, a.exc), clients, tables, "none", << >>)
                 ELSE outcome(a.result, a.clients, tables, "none", a.signed)
        ELSE IF name = "register_client"
        THEN LET r == register_client_call(clients, arguments.app_id, arguments.app_name,
                                           arguments.role, arguments.scopes,
                                           rnd.credentials, rnd.storage)
             IN  outcome(r.result, r.clients, tables, "none", << >>)
        ELSE IF name = "validate_token"
        THEN outcome(validate_token(get_access_token(arguments), t),
                     clients, tables, "none", << >>)
        ELSE IF name \notin RecordTools
        THEN outcome(error_result(name, "Unknown tool"), clients, tables, "none", << >>)
        ELSE IF ~binds(name, arguments)
        THEN outcome(error_result(name, "TypeError"), clients, tables, "none", << >>)
        ELSE LET r == route(name, tables, arguments, rnd.id)
             IN  IF r.raised
                 THEN outcome(error_result(name, r.message), clients, r.db, name, << >>)
                 ELSE outcome(r.result, clients, r.db, name, << >>)

\* call_tool(name, arguments) at clock reading t. rnd carries what the call
\* draws from outside: the later clock readings (t_iat, t_used), the
\* generated credentials, the generated record id and what the storage does.
call_tool(name, arguments, clients, tables, t, rnd) ==
    IF name = "authenticate"
    THEN IF ~binds(name, arguments)
         THEN outcome(error_result(name, "TypeError"), clients, tables, "none", << >>)
         ELSE LET a == authenticate_client_call(clients, arguments.client_id,
                                                arguments.client_secret, arguments.app_id,
                                                t, rnd.t_iat, rnd.t_used, rnd.storage)
              IN  IF a.raised
                  THEN outcome(error_result(name, a.exc), clients, tables, "none", << >>)
                  ELSE outcome(a.result, a.clients, tables, "none", a.signed)
    ELSE IF name = "register_client"
    THEN IF ~binds(name, arguments)
         THEN outcome(error_result(name, "TypeError"), clients, tables, "none", << >>)
         ELSE LET r == register_client_call(clients, arguments.app_id, arguments.app_name,
                                            arguments.role, arguments.scopes,
                                            rnd.credentials, rnd.storage)
              IN  outcome(r.result, r.clients, tables, "none", << >>)
    ELSE IF name = "validate_token"
    THEN outcome(validate_token(get_access_token(arguments), t),
                 clients, tables, "none", << >>)
    ELSE LET refused == token_validation_error(arguments, t)
         IN  IF refused # ""
             THEN outcome(error_result(name, refused), clients, tables, "none", << >>)
             ELSE IF name \notin RecordTools
             THEN outcome(error_result(name, "Unknown tool"),
                          clients, tables, "none", << >>)
             ELSE IF ~binds(name, arguments)
             THEN outcome(error_result(name, "TypeError"), clients, tables, "none", << >>)
             ELSE LET r == route(name, tables, arguments, rnd.id)
                  IN  IF r.raised
                      THEN outcome(error_result(name, r.message), clients, r.db, name, << >>)
                      ELSE outcome(r.result, clients, r.db, name, << >>)


(***************************************************************************)
(* What a caller may present.                                              *)
(***************************************************************************)
IssuedTokens == {i.token : i \in issued}

other_role(role) == CHOOSE r \in Roles : r # role

\* A signed token with its payload or its signature altered.
with_role_altered(token) == [token EXCEPT !.payload.role = other_role(@)]
with_exp_altered(token) == [token EXCEPT !.payload.exp = @ + TokenLifetime]
with_signature_altered(token) ==
    [token EXCEPT !.signature = hmac(AttackerKey, token.header, token.payload)]
with_alg_none(token) == [token EXCEPT !.header.alg = "none", !.signature = << >>]

altered(token) ==
    {with_role_altered(token), with_exp_altered(token),
     with_signature_altered(token), with_alg_none(token)}

\* A token signed from scratch with another key.
ForgedToken ==
    jwt_encode([client_id |-> 1, app_id |-> "app_a", role |-> "doctor", scopes |-> << >>,
                type |-> "access", exp |-> 2 * TokenLifetime, iat |-> 0],
               AttackerKey, ALGORITHM)

\* Every token string a caller can build without the signing key.
UnsignedTokens ==
    UNION {altered(token) : token \in IssuedTokens}
        \cup {ForgedToken, EmptyToken, GarbageToken, NoneToken}

AllTokens == IssuedTokens \cup UnsignedTokens

PresentedSecrets ==
    {Secret(n) : n \in 1..(Len(oauth_clients) + 1)}
        \cup {oauth_clients[i].client_secret_hash : i \in 1..Len(oauth_clients)}

RoleScopes == {<<"nurse", <<"read:vitals", "write:vitals">>>>, <<"doctor", << >>>>}

RegisterInputs ==
    {[app_id |-> a, app_name |-> AppName, role |-> rs[1], scopes |-> rs[2]] :
        a \in AppIds, rs \in RoleScopes}

\* Every registration the checks range over.
AllRegisterInputs ==
    {[app_id |-> a, app_name |-> AppName, role |-> r, scopes |-> s] :
        a \in AppIds, r \in Roles,
        s \in ScopeLists \cup {<<"write:vitals", "read:vitals">>, <<"read:vitals">>}}

TheProvider == 1
TheTime == "09:00"

tool_arguments(name, mrn) ==
    CASE name = "search_patients" -> [search_term |-> AnyTerm]
      [] name = "create_patient" ->
             [first_name |-> "Ada", last_name |-> "Doe", dob |-> "2025-01-15"]
      [] name = "schedule_appointment" ->
             [mrn |-> mrn, provider_npi |-> TheProvider, date |-> "2025-01-15",
              time |-> TheTime]
      [] name = "prescribe_medication" ->
             [mrn |-> mrn, medication_name |-> "aspirin", dosage |-> "10mg",
              frequency |-> "daily"]
      [] OTHER -> [mrn |-> mrn]

with_token(arguments, token) ==
    [k \in DOMAIN arguments \cup {"access_token"} |->
        IF k = "access_token" THEN token ELSE arguments[k]]

\* The plaintext secrets a result dict carries: at its top level, in its
\* client_info, in the payload of its token.
secret_of(dict) == IF "client_secret" \in DOMAIN dict THEN {dict.client_secret} ELSE {}

PlaintextsIn(result) ==
    secret_of(result)
        \cup (IF "client_info" \in DOMAIN result THEN secret_of(result.client_info) ELSE {})
        \cup (IF "access_token" \in DOMAIN result /\ result.access_token.kind = "jwt"
              THEN secret_of(result.access_token.payload) ELSE {})

CountTo2(n, more) == IF more /\ n < 2 THEN n + 1 ELSE n

(***************************************************************************)
(* The state machine.                                                      *)
(***************************************************************************)
\* The two server processes run_both_servers.py starts on one database.
Processes == {"server.py", "sse_server.py"}

NoCall == [pc |-> "idle"]

InitStore ==
    /\ calls = [p \in Processes |-> NoCall]
    /\ websocket = [open |-> TRUE, failures |-> 0]
    /\ stream = [open |-> FALSE, events |-> 0, last |-> [method |-> "none"], parity |-> 0]
    /\ oauth_clients = << >>
    /\ db = [patients |-> << >>, appointments |-> << >>, medications |-> << >>,
             vital_signs |-> << >>, providers |-> {TheProvider}]
    /\ now = 0
    /\ issued = {}
    /\ lastOp = [name |-> "none"]
    /\ handler = "none"
    /\ response = [status |-> "none"]
    /\ disclosed = << >>

Init ==
    /\ InitStore
    /\ JWT_SECRET_KEY \in EnvKeys
    /\ expiresAtExp \in BOOLEAN

\* One call of call_tool (through any transport) and its effect.
Call(name, arguments, rnd) ==
    \E c \in {call_tool(name, arguments, oauth_clients, db, now, rnd)} :
        /\ Len(c.clients) <= MaxClients
        /\ Cardinality(issued \cup Range(c.signed)) <= MaxTokens
        /\ \A table \in {"patients", "appointments", "medications", "vital_signs"} :
               Len(c.db[table]) <= MaxRows
        /\ oauth_clients' = c.clients
        /\ db' = c.db
        /\ now' = IF c.signed # << >> THEN rnd.t_used ELSE now
        /\ issued' = issued \cup Range(c.signed)
        /\ lastOp' = [name |-> name, arguments |-> arguments]
        /\ handler' = c.handler
        /\ response' = c.result
        /\ disclosed' = [i \in 1..Len(c.clients) |->
                            CountTo2(IF i <= Len(disclosed) THEN disclosed[i] ELSE 0,
                                     Secret(i) \in PlaintextsIn(c.result))]
        /\ UNCHANGED <<JWT_SECRET_KEY, expiresAtExp, calls, websocket, stream>>

NoRnd == [t_iat |-> now, t_used |-> now,
          credentials |-> [client_id |-> 0, client_secret |-> Secret(0)], id |-> 0,
          storage |-> "ok"]

\* The clock readings of one call: the clock never goes back and advances
\* by at most MaxSkew during the call.
ClockReadings ==
    {r \in Instants \X Instants : now <= r[1] /\ r[1] <= r[2] /\ r[2] <= now + MaxSkew}

RegisterWith(inputs) ==
    \E arguments \in inputs :
    \E credentials \in generate_client_credentials(oauth_clients) :
        Call("register_client", arguments, [NoRnd EXCEPT !.credentials = credentials])

RegisterClient == RegisterWith(RegisterInputs \cup {[app_id |-> "app_a"]})

AuthenticateWith(inputs) ==
    \E arguments \in inputs :
    \E r \in ClockReadings :
        /\ Call("authenticate", arguments, [NoRnd EXCEPT !.t_iat = r[1], !.t_used = r[2]])
        /\ issued' = issued => r = <<now, now>>

Authenticate ==
    AuthenticateWith({[client_id |-> c, client_secret |-> s, app_id |-> a] :
                         c \in 1..(Len(oauth_clients) + 1),
                         s \in {Secret(1), Secret(Len(oauth_clients) + 1)},
                         a \in AppIds}
                     \cup {[client_id |-> 1, client_secret |-> Secret(1)]})

ValidateToken ==
    \E arguments \in {[access_token |-> token] :
                         token \in IssuedTokens
                                     \cup {with_role_altered(token) : token \in IssuedTokens}
                                     \cup {GarbageToken}}
                        \cup {[token |-> GarbageToken]} :
        Call("validate_token", arguments, NoRnd)

RecordTool ==
    \E name \in {"get_patient", "create_patient", "record_vital_signs", "unknown_tool"} :
    \E mrn \in 1..(Len(db.patients) + 1) :
    \E arguments \in {with_token(tool_arguments(name, mrn), token) :
                         token \in IssuedTokens \cup {EmptyToken}}
                        \cup {tool_arguments(name, mrn)} :
    \E id \in 1..(Len(db.patients) + 1) :
        /\ Call(name, arguments, [NoRnd EXCEPT !.id = id])
        /\ (name # "create_patient" \/ handler' = "none") => id = 1

\* An administrator deactivates a credential in the store.
Deactivate ==
    \E i \in 1..Len(oauth_clients) :
        /\ oauth_clients[i].is_active
        /\ oauth_clients' = [oauth_clients EXCEPT ![i].is_active = FALSE]
        /\ lastOp' = [name |-> "deactivate", arguments |-> [row |-> i]]
        /\ handler' = "none"
        /\ response' = [status |-> "none"]
        /\ UNCHANGED <<db, now, JWT_SECRET_KEY, expiresAtExp, issued, disclosed, calls, websocket, stream>>

\* Time passes.
Tick ==
    \E t \in Instants :
        /\ t > now
        /\ now' = t
        /\ UNCHANGED <<oauth_clients, db, JWT_SECRET_KEY, expiresAtExp, issued, lastOp,
                       handler, response, disclosed, calls, websocket, stream>>

\* The credential store in depth: up to MaxClients credentials, every kind
\* of authentication attempt, within the first seconds.
Next ==
    \/ RegisterClient
    \/ Authenticate
    \/ ValidateToken
    \/ Deactivate

Spec == Init /\ [][Next]_vars

\* Tokens and dispatch in depth: one credential, the whole lifetime of its
\* tokens, the record-access tools.
InitTools ==
    /\ InitStore
    /\ JWT_SECRET_KEY = ""
    /\ expiresAtExp \in BOOLEAN

RegisterFirst ==
    /\ oauth_clients = << >>
    /\ RegisterWith({i \in RegisterInputs : i.app_id = "app_a"})

AuthenticateFirst ==
    AuthenticateWith({[client_id |-> 1, client_secret |-> Secret(1), app_id |-> "app_a"],
                      [client_id |-> 1, client_secret |-> Secret(2), app_id |-> "app_a"]})

NextTools ==
    \/ RegisterFirst
    \/ AuthenticateFirst
    \/ ValidateToken
    \/ RecordTool
    \/ Deactivate
    \/ Tick

SpecTools == InitTools /\ [][NextTools]_vars

\* A caller of auth.py asks whether a token carries one of the roles allowed.
RequireRole ==
    \E token \in IssuedTokens \cup {with_role_altered(i) : i \in IssuedTokens}
                    \cup {GarbageToken} :
    \E required_roles \in {{"doctor"}, {"nurse", "doctor"}} :
        /\ lastOp' = [name |-> "require_role",
                      arguments |-> [token |-> token, required_roles |-> required_roles]]
        /\ response' = [value |-> require_role(token, required_roles, now)]
        /\ handler' = "none"
        /\ UNCHANGED <<oauth_clients, db, now, JWT_SECRET_KEY, expiresAtExp, issued,
                       disclosed, calls, websocket, stream>>

ScopeNames == {"read:vitals", "write:vitals", "write:patients"}

\* A caller of auth.py asks whether a token carries a scope.
RequireScope ==
    \E token \in IssuedTokens \cup {GarbageToken} :
    \E required_scope \in {"write:vitals", "write:patients"} :
        /\ lastOp' = [name |-> "require_scope",
                      arguments |-> [token |-> token, required_scope |-> required_scope]]
        /\ response' = [value |-> require_scope(token, required_scope, now)]
        /\ handler' = "none"
        /\ UNCHANGED <<oauth_clients, db, now, JWT_SECRET_KEY, expiresAtExp, issued,
                       disclosed, calls, websocket, stream>>

\* Tokens signed with the server's key that are not access tokens: the
\* payload of a signed token with another type tag, or with none.
with_type(token, type) ==
    jwt_encode([token.payload EXCEPT !.type = type], SECRET_KEY, ALGORITHM)

without_type(token) ==
    jwt_encode([k \in DOMAIN token.payload \ {"type"} |-> token.payload[k]],
               SECRET_KEY, ALGORITHM)

retyped(token) == {with_type(token, "refresh"), with_type(token, "Access"), without_type(token)}

OtherTypeTokens == UNION {retyped(token) : token \in IssuedTokens}

\* A holder of the signing key presents a token that is not an access token.
ValidateOtherType ==
    \E token \in OtherTypeTokens :
        Call("validate_token", [access_token |-> token], NoRnd)

\* authenticate is called for the first credential while the storage fails,
\* or with a number as the secret.
AuthenticateRaising ==
    \E secret \in {Secret(1), NumberSecret} :
    \E storage \in StorageOutcomes :
        /\ (storage = "ok") <=> (secret = NumberSecret)
        /\ Call("authenticate",
                [client_id |-> 1, client_secret |-> secret, app_id |-> "app_a"],
                [NoRnd EXCEPT !.storage = storage])

\* register_client is called while the commit fails.
RegisterCommitFails ==
    \E arguments \in RegisterInputs :
        Call("register_client", arguments,
             [NoRnd EXCEPT !.credentials = Fresh(oauth_clients), !.storage = "commit_fails"])

\* The derived checks in depth: one credential, the whole lifetime of its
\* tokens, require_role and require_scope.
NextChecks ==
    \/ RegisterFirst
    \/ AuthenticateFirst
    \/ RequireRole
    \/ RequireScope
    \/ ValidateOtherType
    \/ AuthenticateRaising
    \/ RegisterCommitFails
    \/ Tick

SpecChecks == InitTools /\ [][NextChecks]_vars


(***************************************************************************)
(* authenticate_client step by step, as two processes on one database      *)
(* interleave it: the query, the UPDATE of last_used with its commit, and  *)
(* the return, which reads the row again (the session expires its objects  *)
(* on commit). The storage executes each statement atomically.             *)
(***************************************************************************)
\* A commit under optimistic locking: it fails when the row was written
\* since it was read.
commit_last_used_versioned(clients, client, i, t) ==
    IF clients[i].last_used # client.last_used
    THEN [ok |-> FALSE, clients |-> clients]
    ELSE [ok |-> TRUE, clients |-> [clients EXCEPT ![i].last_used = t]]

\* client.last_used = datetime.utcnow(); db.commit(): UPDATE oauth_clients
\* SET last_used = t WHERE id = i.
commit_last_used(clients, client, i, t) ==
    [ok |-> TRUE, clients |-> [clients EXCEPT ![i].last_used = t]]

\* The clock read once more during a call.
LaterReadings == {t \in Instants : now <= t /\ t <= now + MaxSkew}

Returned(p, arguments, result) ==
    /\ calls' = [calls EXCEPT ![p] = [pc |-> "done", arguments |-> arguments,
                                       result |-> result]]
    /\ lastOp' = [name |-> "authenticate", arguments |-> arguments]
    /\ response' = result
    /\ handler' = "none"

\* Lines 81-110: the query, the secret check and the token.
Query(p) ==
    /\ calls[p].pc = "idle"
    /\ oauth_clients # << >>
    /\ \E secret \in {Secret(1), Secret(2)} : \E t_iat \in LaterReadings :
          LET arguments == [client_id |-> 1, client_secret |-> secret, app_id |-> "app_a"]
              m == matching_clients(oauth_clients, arguments.client_id, arguments.app_id)
              i == first_client(oauth_clients, arguments.client_id, arguments.app_id)
              client == oauth_clients[i]
              scopes == IF client.scopes # << >> THEN json_loads(client.scopes) ELSE << >>
          IN  IF m = {}
              THEN /\ Returned(p, arguments, ClientNotFound)
                   /\ UNCHANGED now
              ELSE IF ~verify_secret(secret, client.client_secret_hash)
              THEN /\ Returned(p, arguments, SecretMismatch)
                   /\ UNCHANGED now
              ELSE /\ calls' = [calls EXCEPT ![p] =
                                   [pc |-> "signed", arguments |-> arguments, row |-> i,
                                    client |-> client, scopes |-> scopes,
                                    access_token |->
                                        create_access_token(client.client_id, client.app_id,
                                                            client.role, scopes, now, t_iat)]]
                   /\ now' = t_iat
                   /\ UNCHANGED <<lastOp, response, handler>>
    /\ UNCHANGED <<oauth_clients, db, JWT_SECRET_KEY, expiresAtExp, issued, disclosed,
                   websocket, stream>>

\* Lines 113-114: last_used and the commit.
Commit(p) ==
    /\ calls[p].pc = "signed"
    /\ \E t_used \in LaterReadings :
       \E c \in {commit_last_used(oauth_clients, calls[p].client, calls[p].row, t_used)} :
          /\ now' = t_used
          /\ oauth_clients' = c.clients
          /\ IF c.ok
             THEN /\ calls' = [calls EXCEPT ![p] =
                                  [pc |-> "committed", arguments |-> calls[p].arguments,
                                   row |-> calls[p].row, client |-> calls[p].client,
                                   scopes |-> calls[p].scopes,
                                   access_token |-> calls[p].access_token,
                                   t_used |-> t_used]]
                  /\ UNCHANGED <<lastOp, response, handler>>
             ELSE Returned(p, calls[p].arguments,
                           error_result("authenticate", "StaleDataError"))
    /\ UNCHANGED <<db, JWT_SECRET_KEY, expiresAtExp, issued, disclosed,
                   websocket, stream>>

\* Lines 116-128: the dict returned, from the row as the database has it now.
Return(p) ==
    /\ calls[p].pc = "committed"
    /\ LET call == calls[p]
           client == oauth_clients[call.row]
           result == token_response(client, call.arguments.client_secret,
                                    call.access_token, call.scopes)
       IN  /\ calls' = [calls EXCEPT ![p] = [pc |-> "done", arguments |-> call.arguments,
                                              result |-> result, row |-> call.row,
                                              client |-> call.client,
                                              t_used |-> call.t_used]]
           /\ lastOp' = [name |-> "authenticate", arguments |-> call.arguments]
           /\ response' = result
           /\ handler' = "none"
           /\ issued' = issued \cup {[token |-> call.access_token,
                                       client_id |-> client.client_id,
                                       app_id |-> client.app_id,
                                       role |-> client.role,
                                       scopes |-> call.scopes,
                                       t_exp |-> call.access_token.payload.exp - TokenLifetime,
                                       row |-> call.row]}
    /\ UNCHANGED <<oauth_clients, db, now, JWT_SECRET_KEY, expiresAtExp, disclosed,
                   websocket, stream>>

\* Two processes, each executing one authenticate_client call.
NextConcurrent ==
    \/ RegisterFirst
    \/ \E p \in Processes : Query(p)
    \/ \E p \in Processes : Commit(p)
    \/ \E p \in Processes : Return(p)

SpecConcurrent == InitTools /\ [][NextConcurrent]_vars


(***************************************************************************)
(* The transports: sse_server.py (POST /mcp, POST /call, GET /sse) and the *)
(* WebSocket message loop of server.py. A request body or message is a     *)
(* JSON object (a record), a JSON value that is no object, or a text that  *)
(* is no JSON. None is written "None" where a string is expected.          *)
(***************************************************************************)
Malformed == [json |-> "malformed"]   \* a text json.loads rejects
NotADict == [json |-> "array"]        \* a JSON value without .get: a list, a number, null
NoId == "None"                        \* data.get("id") of an absent key: null in the response
NoName == "None"                      \* params.get("name") of an absent key
NoMessage == [jsonrpc |-> "none"]     \* nothing was sent

is_dict(value) == value \notin {Malformed, NotADict}

get(dict, key, default) == IF key \in DOMAIN dict THEN dict[key] ELSE default

\* bool(value) of a dict, and of a string or None.
truthy(dict) == DOMAIN dict # {}
named(tool_name) == tool_name \notin {NoName, ""}

\* list_tools(): the catalog, by name.
list_tools == AuthTools \cup RecordTools

jsonrpc_result(id, result) == [jsonrpc |-> "2.0", id |-> id, result |-> result]

\* An error response that answers with a null id.
jsonrpc_error_null_id(id, code, message) ==
    [jsonrpc |-> "2.0", id |-> NoId, error |-> [code |-> code, message |-> message]]

jsonrpc_error(id, code, message) ==
    [jsonrpc |-> "2.0", id |-> id, error |-> [code |-> code, message |-> message]]

\* An unknown method answered as an invalid request.
method_not_found_as_invalid(id) == jsonrpc_error(id, -32600, "Invalid Request")

method_not_found(id) == jsonrpc_error(id, -32601, "Method not found")

\* What a transport step leaves: the response, whether call_tool was
\* invoked, and the stores, the handler entered and the token signed.
unserved(sent, clients, tables) ==
    [response |-> sent, called |-> FALSE, clients |-> clients, db |-> tables,
     handler |-> "none", signed |-> << >>]

served(sent, c) ==
    [response |-> sent, called |-> TRUE, clients |-> c.clients, db |-> c.db,
     handler |-> c.handler, signed |-> c.signed]

\* call_tool with whatever JSON value the request carried as arguments: on a
\* value that is no dict, **arguments or arguments.get raises inside
\* call_tool's try.
call_tool_of(name, arguments, clients, tables, t, rnd) ==
    IF is_dict(arguments)
    THEN call_tool(name, arguments, clients, tables, t, rnd)
    ELSE outcome(error_result(name, "not a mapping"), clients, tables, "none", << >>)

\* "Validate access token if provided" (sse_server.py 285-290, 446-458): the
\* token is refused when validate_token's return value is falsy.
token_refused(arguments, t) ==
    LET access_token == get_access_token(arguments)
    IN  /\ ~falsy(access_token)
        /\ ~truthy(validate_token(access_token, t))

\* POST /mcp.
mcp_jsonrpc_endpoint(body, clients, tables, t, rnd) ==
    LET http(sent) == unserved([http |-> 200, body |-> sent], clients, tables)
    IN  IF body = Malformed
        THEN http(jsonrpc_error(NoId, -32700, "Parse error: Invalid JSON"))
        ELSE IF ~is_dict(body)
        THEN http(jsonrpc_error(NoId, -32603, "Internal error"))
        ELSE LET jsonrpc == get(body, "jsonrpc", "None")
                 method == get(body, "method", "None")
                 params == get(body, "params", << >>)
                 request_id == get(body, "id", NoId)
             IN  IF jsonrpc # "2.0"
                 THEN http(jsonrpc_error(request_id, -32600, "Invalid Request"))
                 ELSE IF method = "initialize"
                 THEN http(jsonrpc_result(request_id,
                                          [protocolVersion |-> "2024-11-05",
                                           serverInfo |-> "EPIC EHR MCP Server"]))
                 ELSE IF method = "tools/list"
                 THEN http(jsonrpc_result(request_id, [tools |-> list_tools]))
                 ELSE IF method = "tools/call"
                 THEN IF ~is_dict(params)
                      THEN http(jsonrpc_error(request_id, -32603, "Internal error"))
                      ELSE LET tool_name == get(params, "name", NoName)
                               arguments == get(params, "arguments", << >>)
                           IN  IF ~named(tool_name)
                               THEN http(jsonrpc_error(request_id, -32602,
                                                       "Invalid params: missing 'name'"))
                               ELSE IF ~is_dict(arguments)
                               THEN http(jsonrpc_error(request_id, -32603, "Internal error"))
                               ELSE IF token_refused(arguments, t)
                               THEN http(jsonrpc_error(request_id, -32001,
                                                       "Invalid access token"))
                               ELSE LET c == call_tool(tool_name, arguments, clients,
                                                       tables, t, rnd)
                                    IN  served([http |-> 200,
                                                body |-> jsonrpc_result(
                                                    request_id, [content |-> c.result])], c)
                 ELSE http(method_not_found(request_id))

\* POST /call.
call_tool_endpoint(body, clients, tables, t, rnd) ==
    LET raise(status, detail) ==
            unserved([http |-> status, detail |-> detail], clients, tables)
    IN  IF ~is_dict(body)
        THEN raise(500, "Exception")
        ELSE LET tool_name == get(body, "tool", NoName)
                 arguments == get(body, "arguments", << >>)
             IN  IF ~named(tool_name)
                 THEN raise(400, "Missing 'tool' parameter")
                 ELSE IF ~is_dict(arguments)
                 THEN raise(500, "Exception")
                 ELSE IF token_refused(arguments, t)
                 THEN raise(401, "Invalid access token")
                 ELSE LET c == call_tool(tool_name, arguments, clients, tables, t, rnd)
                      IN  served([http |-> 200,
                                  body |-> [jsonrpc |-> "2.0",
                                            result |-> [content |-> c.result]]], c)

\* One iteration of the WebSocket message loop (server.py 324-369): what is
\* sent, and whether an exception left the loop (escaped).
websocket_message(message, clients, tables, t, rnd) ==
    LET send(sent) ==
            [escaped |-> FALSE] @@ unserved(sent, clients, tables)
    IN  IF message = Malformed
        THEN send(NoMessage)
        ELSE IF ~is_dict(message)
        THEN \* data.get raises at line 327 and again in the except clause
             \* at line 366: 'data' is in locals(), and it has no .get.
             [escaped |-> TRUE] @@ unserved(NoMessage, clients, tables)
        ELSE LET method == get(message, "method", "None")
                 id == get(message, "id", NoId)
             IN  IF method = "tools/list"
                 THEN send(jsonrpc_result(id, [tools |-> list_tools]))
                 ELSE IF method = "tools/call"
                 THEN LET params == get(message, "params", << >>)
                      IN  IF ~is_dict(params)
                          THEN send(jsonrpc_error(id, -32603, "AttributeError"))
                          ELSE LET c == call_tool_of(get(params, "name", NoName),
                                                     get(params, "arguments", << >>),
                                                     clients, tables, t, rnd)
                               IN  [escaped |-> FALSE]
                                       @@ served(jsonrpc_result(id, [content |-> c.result]), c)
                 ELSE send(method_not_found(id))

\* GET /sse: the first event, and the event of every later iteration.
catalog_event == [jsonrpc |-> "2.0", method |-> "tools/list", result |-> [tools |-> list_tools]]

\* A heartbeat that announces the catalog again.
heartbeat_event_with_catalog == catalog_event

heartbeat_event == [jsonrpc |-> "2.0", method |-> "ping"]

carries_tools(event) == "result" \in DOMAIN event /\ "tools" \in DOMAIN event.result

(***************************************************************************)
(* The requests a client sends.                                            *)
(***************************************************************************)
RequestIds == {"3"}

\* The argument dicts of a tools/call: without a token, with a token that
\* is empty, no JWT, altered, of another type, or issued (valid or expired
\* as the clock has it).
CallArguments(name) ==
    {tool_arguments(name, 1), NotADict}
        \cup {with_token(tool_arguments(name, 1), token) :
                 token \in IssuedTokens \cup {EmptyToken, GarbageToken}
                              \cup {with_role_altered(token) : token \in IssuedTokens}
                              \cup {with_type(token, "refresh") : token \in IssuedTokens}}

CalledNames == {"get_patient", "create_patient", "validate_token"}

CallParams ==
    {[name |-> name, arguments |-> arguments] :
        name \in CalledNames, arguments \in UNION {CallArguments(n) : n \in CalledNames}}

\* JSON-RPC request objects: with and without an id, every method the
\* transports know and one they do not.
with_id(object, id) ==
    [k \in DOMAIN object \cup {"id"} |-> IF k = "id" THEN id ELSE object[k]]

Requests ==
    LET plain == {[jsonrpc |-> "2.0", method |-> method] :
                     method \in {"initialize", "tools/list", "invalid/method"}}
                 \cup {[jsonrpc |-> "2.0", method |-> "tools/call", params |-> params] :
                          params \in CallParams \cup {NotADict, [arguments |-> << >>]}}
                 \cup {[jsonrpc |-> "2.0", method |-> "tools/call"],
                       [jsonrpc |-> "1.0", method |-> "tools/list"],
                       [method |-> "tools/list"], [jsonrpc |-> "2.0"]}
    IN  plain \cup {with_id(object, id) : object \in plain, id \in RequestIds}

Bodies == Requests \cup {Malformed, NotADict}

\* The bodies of POST /call.
CallBodies ==
    {[tool |-> p.name, arguments |-> p.arguments] : p \in CallParams}
        \cup {[arguments |-> << >>], [tool |-> "get_patient"], Malformed, NotADict}

\* The requests the actions below send: one of every kind, the tools/call
\* ones with every token issued and with a text that is no token.
call_request(name, token) ==
    [jsonrpc |-> "2.0", id |-> "3", method |-> "tools/call",
     params |-> [name |-> name,
                 arguments |-> with_token(tool_arguments(name, 1), token)]]

SentBodies ==
    {Malformed, NotADict,
     [jsonrpc |-> "2.0", id |-> "3", method |-> "tools/list"],
     [jsonrpc |-> "2.0", id |-> "3", method |-> "invalid/method"],
     [jsonrpc |-> "2.0", id |-> "3", method |-> "tools/call", params |-> NotADict]}
        \cup {call_request("get_patient", token) : token \in IssuedTokens \cup {GarbageToken}}

SentCallBodies ==
    {[tool |-> "get_patient",
      arguments |-> with_token(tool_arguments("get_patient", 1), token)] :
        token \in IssuedTokens \cup {GarbageToken}}
        \cup {[arguments |-> << >>], NotADict}

\* A message that fails: no JSON, no object, an unknown method, params that
\* are no object, or a tool that reports an error.
failing(message, sent) ==
    \/ ~is_dict(message)
    \/ sent = NoMessage
    \/ "error" \in DOMAIN sent
    \/ /\ "result" \in DOMAIN sent
       /\ "content" \in DOMAIN sent.result
       /\ "tool" \in DOMAIN sent.result.content

(***************************************************************************)
(* The transports as actions.                                              *)
(***************************************************************************)
\* The effect of one request on the stores and on the history.
Served(name, body, e) ==
    /\ Len(e.clients) <= MaxClients
    /\ Cardinality(issued \cup Range(e.signed)) <= MaxTokens
    /\ \A table \in {"patients", "appointments", "medications", "vital_signs"} :
           Len(e.db[table]) <= MaxRows
    /\ oauth_clients' = e.clients
    /\ db' = e.db
    /\ issued' = issued \cup Range(e.signed)
    /\ lastOp' = [name |-> name, arguments |-> body, called |-> e.called]
    /\ handler' = e.handler
    /\ response' = e.response
    /\ UNCHANGED <<now, JWT_SECRET_KEY, expiresAtExp, disclosed, calls>>

PostMcp ==
    \E body \in SentBodies :
    \E e \in {mcp_jsonrpc_endpoint(body, oauth_clients, db, now, [NoRnd EXCEPT !.id = 1])} :
        /\ Served("POST /mcp", body, e)
        /\ UNCHANGED <<websocket, stream>>

PostCall ==
    \E body \in SentCallBodies :
    \E e \in {call_tool_endpoint(body, oauth_clients, db, now, [NoRnd EXCEPT !.id = 1])} :
        /\ Served("POST /call", body, e)
        /\ UNCHANGED <<websocket, stream>>

\* The message loop takes the next message of the connection.
WebSocketMessage ==
    /\ websocket.open
    /\ \E message \in SentBodies :
       \E e \in {websocket_message(message, oauth_clients, db, now, [NoRnd EXCEPT !.id = 1])} :
           /\ Served("websocket", message, e)
           /\ websocket' = [open |-> ~e.escaped,
                            failures |-> CountTo2(websocket.failures,
                                                  failing(message, e.response))]
           /\ UNCHANGED stream

\* GET /sse: the generator starts and yields its first event.
SseOpen ==
    /\ ~stream.open
    /\ stream.events = 0
    /\ stream' = [open |-> TRUE, events |-> 1, last |-> catalog_event, parity |-> 1]
    /\ UNCHANGED <<oauth_clients, db, now, JWT_SECRET_KEY, expiresAtExp, issued, lastOp,
                   handler, response, disclosed, calls, websocket>>

\* One iteration of the while loop: asyncio.sleep(30), then the event.
SseHeartbeat ==
    /\ stream.open
    /\ stream' = [open |-> TRUE, events |-> CountTo2(stream.events, TRUE),
                  last |-> heartbeat_event, parity |-> 1 - stream.parity]
    /\ UNCHANGED <<oauth_clients, db, now, JWT_SECRET_KEY, expiresAtExp, issued, lastOp,
                   handler, response, disclosed, calls, websocket>>

\* The client disconnects: CancelledError ends the generator.
SseClose ==
    /\ stream.open
    /\ stream' = [stream EXCEPT !.open = FALSE]
    /\ UNCHANGED <<oauth_clients, db, now, JWT_SECRET_KEY, expiresAtExp, issued, lastOp,
                   handler, response, disclosed, calls, websocket>>

\* The one token of the behaviour is signed.
AuthenticateOnce ==
    /\ issued = {}
    /\ AuthenticateFirst

\* The HTTP server: its routes and its stream. While a stream is open the
\* event loop resumes the generator after every sleep.
NextHttp ==
    \/ RegisterFirst
    \/ AuthenticateOnce
    \/ Tick
    \/ PostMcp
    \/ PostCall
    \/ SseOpen
    \/ SseHeartbeat
    \/ SseClose

SpecHttp == InitTools /\ [][NextHttp]_vars /\ WF_vars(SseHeartbeat)

\* The WebSocket server: one connection.
NextWebSocket ==
    \/ RegisterFirst
    \/ AuthenticateOnce
    \/ Tick
    \/ WebSocketMessage

SpecWebSocket == InitTools /\ [][NextWebSocket]_vars


(***************************************************************************)
(* The record tools in depth: a database that holds a patient and, maybe,  *)
(* a cancelled appointment, and callers that create patients, schedule     *)
(* appointments, prescribe and record vital signs, one call at a time.     *)
(***************************************************************************)
MaxRecords == 4   \* rows of the record tables together, the seeded ones included

OtherTime == "10:00"
UnknownProvider == 2

SeededPatient == [mrn |-> 1, dob |-> <<2025, 1, 15>>]

CancelledAppointment ==
    [appointment_id |-> 0, mrn |-> 1, npi |-> TheProvider, date |-> <<2025, 1, 15>>,
     time |-> TheTime, status |-> "cancelled"]

InitRecords ==
    /\ calls = [p \in Processes |-> NoCall]
    /\ websocket = [open |-> TRUE, failures |-> 0]
    /\ stream = [open |-> FALSE, events |-> 0, last |-> [method |-> "none"], parity |-> 0]
    /\ oauth_clients = << >>
    /\ db \in {[patients |-> <<SeededPatient>>, appointments |-> seeded,
                medications |-> << >>, vital_signs |-> << >>,
                providers |-> {TheProvider}] :
                  seeded \in {<< >>, <<CancelledAppointment>>}}
    /\ now = 0
    /\ issued = {}
    /\ lastOp = [name |-> "none"]
    /\ handler = "none"
    /\ response = [status |-> "none"]
    /\ disclosed = << >>
    /\ JWT_SECRET_KEY = ""
    /\ expiresAtExp = TRUE

\* One call of a record tool through call_tool.
Record(name, arguments, id) ==
    \E c \in {call_tool(name, arguments, oauth_clients, db, now, [NoRnd EXCEPT !.id = id])} :
        /\ Len(c.db.patients) <= MaxRows + 1
        /\ Len(c.db.patients) + Len(c.db.appointments)
             + Len(c.db.medications) + Len(c.db.vital_signs) <= MaxRecords
        /\ db' = c.db
        /\ lastOp' = [name |-> name, arguments |-> arguments]
        /\ handler' = c.handler
        /\ response' = c.result
        /\ UNCHANGED <<oauth_clients, now, JWT_SECRET_KEY, expiresAtExp, issued, disclosed,
                       calls, websocket, stream>>

\* The tokens a caller of a record tool presents: those issued, or none.
Presented(arguments) ==
    {with_token(arguments, token) : token \in IssuedTokens} \cup {arguments}

DateTexts == {"2025-01-15", "2025-1-15", "tomorrow"}

ScheduleArguments ==
    {[mrn |-> mrn, provider_npi |-> npi, date |-> date, time |-> time] :
        mrn \in MRNs, npi \in {TheProvider, UnknownProvider},
        date \in DateTexts, time \in {TheTime, OtherTime}}

\* The ids uuid4 may produce for a new row: one no row carries, or the id
\* of the first row.
GeneratedIds(rows) == {Len(rows) + 1, 1}

CreatePatient ==
    \E arguments \in {[first_name |-> "Ada", last_name |-> "Doe", dob |-> dob] :
                         dob \in {"2025-01-15", "tomorrow"}} :
    \E presented \in Presented(arguments) :
    \E mrn \in GeneratedIds(db.patients) :
        Record("create_patient", presented, mrn)

ScheduleAppointment ==
    \E arguments \in ScheduleArguments :
    \E presented \in Presented(arguments) :
    \E apt_id \in GeneratedIds(db.appointments) :
        Record("schedule_appointment", presented, apt_id)

PrescribeMedication ==
    \E mrn \in MRNs :
    \E presented \in Presented(tool_arguments("prescribe_medication", mrn)) :
    \E med_id \in GeneratedIds(db.medications) :
        Record("prescribe_medication", presented, med_id)

RecordVitalSigns ==
    \E mrn \in MRNs :
    \E presented \in Presented(tool_arguments("record_vital_signs", mrn)) :
        Record("record_vital_signs", presented, 0)

NextRecords ==
    \/ RegisterFirst
    \/ AuthenticateOnce
    \/ CreatePatient
    \/ ScheduleAppointment
    \/ PrescribeMedication
    \/ RecordVitalSigns

SpecRecords == InitRecords /\ [][NextRecords]_vars


(***************************************************************************)
(* Two server processes on one database file, each executing one           *)
(* schedule_appointment_tool call. A SELECT holds no lock once it has      *)
(* returned, and SQLite serialises the commits, so the steps of a call are *)
(* its reads and its insert.                                               *)
(***************************************************************************)
BookingArguments ==
    {[mrn |-> mrn, provider_npi |-> TheProvider, date |-> date, time |-> time] :
        mrn \in MRNs, date \in {"2025-01-15", "2025-1-15"}, time \in {TheTime, OtherTime}}

Finished(p, arguments, result) ==
    /\ calls' = [calls EXCEPT ![p] = [pc |-> "done", arguments |-> arguments,
                                      result |-> result]]
    /\ lastOp' = [name |-> "schedule_appointment", arguments |-> arguments]
    /\ response' = result
    /\ handler' = "schedule_appointment"

\* Lines 159-181: the reads of one call.
CheckForConflicts(p) ==
    /\ calls[p].pc = "idle"
    /\ \E arguments \in BookingArguments :
       \E c \in {check_for_conflicts(db, arguments)} :
           IF c.raised
           THEN Finished(p, arguments, error_result("schedule_appointment", c.message))
           ELSE /\ calls' = [calls EXCEPT ![p] = [pc |-> "checked",
                                                  arguments |-> arguments]]
                /\ UNCHANGED <<lastOp, response, handler>>
    /\ UNCHANGED <<oauth_clients, db, now, JWT_SECRET_KEY, expiresAtExp, issued, disclosed,
                   websocket, stream>>

\* Lines 183-210: db.add, db.commit and the return of one call.
AddAppointment(p) ==
    /\ calls[p].pc = "checked"
    /\ \E apt_id \in GeneratedIds(db.appointments) :
       \E r \in {add_appointment(db, calls[p].arguments, apt_id)} :
           /\ db' = r.db
           /\ IF r.raised
              THEN Finished(p, calls[p].arguments,
                            error_result("schedule_appointment", r.message))
              ELSE Finished(p, calls[p].arguments, r.result)
    /\ UNCHANGED <<oauth_clients, now, JWT_SECRET_KEY, expiresAtExp, issued, disclosed,
                   websocket, stream>>

NextBooking ==
    \/ \E p \in Processes : CheckForConflicts(p)
    \/ \E p \in Processes : AddAppointment(p)

SpecBooking == InitRecords /\ [][NextBooking]_vars

(***************************************************************************)
(* Properties.                                                             *)
(***************************************************************************)
GatedNames == RecordTools \cup {"unknown_tool"}

\* The argument dicts the checks of call_tool range over: with no
\* access_token, and with every token a caller can present.
GatedArguments(name) ==
    {tool_arguments(name, 1)}
        \cup {with_token(tool_arguments(name, 1), token) : token \in AllTokens}

RegisteredIds == {oauth_clients[i].client_id : i \in 1..Len(oauth_clients)}

\* C1: a call_tool for any name other than authenticate, register_client and
\* validate_token (names that match no tool included) whose arguments carry
\* no access_token, an empty one or one validate_token rejects ends with an
\* error result, enters no record-access handler and leaves the clinical
\* tables as they were; a handler is entered only with a token the server signed.
C1_NoHandlerWithoutValidToken ==
    /\ \A name \in GatedNames : \A arguments \in GatedArguments(name) :
          LET token == get_access_token(arguments)
              c == call_tool(name, arguments, oauth_clients, db, now,
                             [NoRnd EXCEPT !.id = 1])
          IN  (falsy(token) \/ ~validate_token(token, now).valid) =>
                  /\ c.handler = "none"
                  /\ c.db = db
                  /\ c.result.status = "error"
    /\ handler # "none" =>
          /\ "access_token" \in DOMAIN lastOp.arguments
          /\ lastOp.arguments.access_token \in IssuedTokens

\* A write tool was called with a token that has expired: refused, nothing written.
C1_Witness ==
    /\ lastOp.name = "create_patient"
    /\ "access_token" \in DOMAIN lastOp.arguments
    /\ lastOp.arguments.access_token \in IssuedTokens
    /\ response = error_result("create_patient", "Invalid token: Token has expired")
    /\ handler = "none"
    /\ db.patients = << >>

\* C2: for a registered active credential, authenticate_client with a wrong
\* secret and authenticate_client with an unregistered client_id return the
\* same dict (same status, same message), directly and through call_tool.
C2_UnknownClientLikeWrongSecret ==
    \A i \in 1..Len(oauth_clients) :
        LET row == oauth_clients[i]
        IN  row.is_active =>
              \A s2 \in PresentedSecrets \ {Secret(i)} :
              \A c2 \in ClientIds \ RegisteredIds :
                  LET wrong == [client_id |-> row.client_id, client_secret |-> s2,
                                app_id |-> row.app_id]
                      unknown == [client_id |-> c2, client_secret |-> Secret(i),
                                  app_id |-> row.app_id]
                      w == authenticate_client(oauth_clients, wrong.client_id,
                                               wrong.client_secret, wrong.app_id,
                                               now, now, now)
                      u == authenticate_client(oauth_clients, unknown.client_id,
                                               unknown.client_secret, unknown.app_id,
                                               now, now, now)
                  IN  /\ w.result = u.result
                      /\ w.result.status = "error"
                      /\ call_tool("authenticate", wrong, oauth_clients, db, now, NoRnd).result
                           = call_tool("authenticate", unknown, oauth_clients, db, now, NoRnd).result

\* authenticate was called for a registered active credential with a wrong secret.
C2_Witness ==
    /\ lastOp.name = "authenticate"
    /\ binds("authenticate", lastOp.arguments)
    /\ \E i \in 1..Len(oauth_clients) :
          /\ oauth_clients[i].is_active
          /\ oauth_clients[i].client_id = lastOp.arguments.client_id
          /\ oauth_clients[i].app_id = lastOp.arguments.app_id
          /\ lastOp.arguments.client_secret # Secret(i)
    /\ response.status = "error"

\* C3: a successful register_client followed at once by authenticate_client
\* with the returned client_id and client_secret and the same app_id
\* succeeds, and validate_token on the token returns the returned client_id
\* and the registered app_id, role and scopes; so does every token issued
\* for a stored credential.
C3_RegisterThenAuthenticate ==
    /\ \A inputs \in AllRegisterInputs :
       \A credentials \in generate_client_credentials(oauth_clients) :
       \A r \in ClockReadings :
          LET reg == register_client(oauth_clients, inputs.app_id, inputs.app_name,
                                     inputs.role, inputs.scopes, credentials)
          IN  reg.result.status = "success" =>
                LET a == authenticate_client(reg.clients, reg.result.client_id,
                                             reg.result.client_secret, inputs.app_id,
                                             now, r[1], r[2])
                IN  /\ a.result.status = "success"
                    /\ validate_token(a.result.access_token, r[2])
                         = [valid |-> TRUE,
                            client_id |-> reg.result.client_id,
                            app_id |-> inputs.app_id,
                            role |-> inputs.role,
                            scopes |-> inputs.scopes]
    /\ \A i \in issued :
          LET row == oauth_clients[i.row]
              v == validate_token(i.token, now)
          IN  /\ v.valid
              /\ v.client_id = row.client_id
              /\ v.app_id = row.app_id
              /\ v.role = row.role
              /\ json_dumps(v.scopes) = row.scopes

\* A credential registered with two scopes authenticated and its token was validated.
C3_Witness ==
    /\ lastOp.name = "validate_token"
    /\ "access_token" \in DOMAIN lastOp.arguments
    /\ lastOp.arguments.access_token \in IssuedTokens
    /\ response.valid
    /\ response.scopes = <<"read:vitals", "write:vitals">>
    /\ \E i \in 1..Len(oauth_clients) :
          /\ oauth_clients[i].client_id = response.client_id
          /\ oauth_clients[i].role = response.role
          /\ oauth_clients[i].last_used # NoTime


Expired == [valid |-> FALSE, error |-> "Token has expired"]
Rejected == [valid |-> FALSE, error |-> "Invalid token"]

\* C4 as stated: a token is valid at every clock value up to and including
\* its expiry e, and reported expired at every clock value after e.
C4_ValidUpToExpiry ==
    \A i \in issued :
        /\ now <= i.token.payload.exp => validate_token(i.token, now).valid
        /\ now > i.token.payload.exp => validate_token(i.token, now) = Expired

\* C4, amended: a token is valid at every clock value before its expiry e and
\* reported expired at every clock value after e; at e itself the verdict is
\* the JWT library's (expired from PyJWT 2.6 on, valid before); once reported
\* expired, a token is never valid again.
C4_ValidBeforeExpiredAfter ==
    /\ [](\A i \in issued :
            /\ now < i.token.payload.exp => validate_token(i.token, now).valid
            /\ now > i.token.payload.exp => validate_token(i.token, now) = Expired
            /\ now = i.token.payload.exp =>
                  validate_token(i.token, now) =
                      IF expiresAtExp THEN Expired
                      ELSE [valid |-> TRUE, client_id |-> i.client_id,
                            app_id |-> i.app_id, role |-> i.role, scopes |-> i.scopes])
    /\ [][\A i \in issued :
            validate_token(i.token, now) = Expired =>
                validate_token(i.token, now') = Expired]_vars

\* validate_token was called on a token after its expiry and reported it expired.
C4_Witness ==
    /\ lastOp.name = "validate_token"
    /\ \E i \in issued :
          /\ lastOp.arguments = [access_token |-> i.token]
          /\ now > i.token.payload.exp
    /\ response = Expired

\* C5: a token issued for a credential that was deactivated afterwards is
\* still valid for validate_token, and every record-access tool called with
\* it is still dispatched to its handler, at every time before its expiry.
C5_DeactivationKeepsTokens ==
    \A i \in issued :
        (~oauth_clients[i.row].is_active /\ now < i.token.payload.exp) =>
            /\ validate_token(i.token, now)
                 = [valid |-> TRUE, client_id |-> i.client_id, app_id |-> i.app_id,
                    role |-> i.role, scopes |-> i.scopes]
            /\ \A name \in RecordTools :
                  call_tool(name, with_token(tool_arguments(name, 1), i.token),
                            oauth_clients, db, now, [NoRnd EXCEPT !.id = 1]).handler = name

\* After its credential was deactivated, a token was presented to get_patient
\* and the handler ran.
C5_Witness ==
    /\ lastOp.name = "get_patient"
    /\ handler = "get_patient"
    /\ \E i \in issued :
          /\ lastOp.arguments.access_token = i.token
          /\ ~oauth_clients[i.row].is_active
          /\ now < i.token.payload.exp

\* C6: with the correct secret, authenticate_client on a credential that is
\* inactive, or with an app_id other than the registered one, returns the
\* dict it returns for an unknown client, signs no token and leaves the
\* table (last_used included) as it was; on an active credential with the
\* registered app_id it signs a token.
C6_OnlyActiveMatchingCredential ==
    \A i \in 1..Len(oauth_clients) : \A app_id \in AppIds : \A r \in ClockReadings :
        LET row == oauth_clients[i]
            a == authenticate_client(oauth_clients, row.client_id, Secret(i), app_id,
                                     now, r[1], r[2])
            unknown == authenticate_client(oauth_clients, Len(oauth_clients) + 1,
                                           Secret(i), app_id, now, r[1], r[2])
        IN  IF row.is_active /\ app_id = row.app_id
            THEN /\ a.result.status = "success"
                 /\ Len(a.signed) = 1
            ELSE /\ a.result = unknown.result
                 /\ a.result.status = "error"
                 /\ a.signed = << >>
                 /\ a.clients = oauth_clients

\* authenticate was called with the correct secret of an inactive credential.
C6_Witness ==
    /\ lastOp.name = "authenticate"
    /\ binds("authenticate", lastOp.arguments)
    /\ \E i \in 1..Len(oauth_clients) :
          /\ ~oauth_clients[i].is_active
          /\ oauth_clients[i].client_id = lastOp.arguments.client_id
          /\ oauth_clients[i].app_id = lastOp.arguments.app_id
          /\ lastOp.arguments.client_secret = Secret(i)
    /\ response.status = "error"

StoredSecrets == {Secret(i) : i \in 1..Len(oauth_clients)}

\* C7: the plaintext secret of every stored credential has appeared in
\* exactly one response, the success response of the register_client call
\* that created it; no authenticate, validate_token, record-access or later
\* register_client call returns it.
C7_SecretReturnedOnce ==
    /\ Len(disclosed) = Len(oauth_clients)
    /\ \A i \in 1..Len(oauth_clients) :
          /\ disclosed[i] = 1
          /\ Secret(i) \in PlaintextsIn(response) =>
                /\ lastOp.name = "register_client"
                /\ response.status = "success"
                /\ response.client_id = oauth_clients[i].client_id
                /\ i = Len(oauth_clients)
    /\ \A c \in ClientIds : \A s \in PresentedSecrets : \A app_id \in AppIds :
          PlaintextsIn(call_tool("authenticate",
                                 [client_id |-> c, client_secret |-> s, app_id |-> app_id],
                                 oauth_clients, db, now, NoRnd).result)
              \cap StoredSecrets = {}
    /\ \A token \in AllTokens :
          PlaintextsIn(call_tool("validate_token", [access_token |-> token],
                                 oauth_clients, db, now, NoRnd).result)
              \cap StoredSecrets = {}
    /\ \A name \in GatedNames : \A token \in IssuedTokens :
          PlaintextsIn(call_tool(name, with_token(tool_arguments(name, 1), token),
                                 oauth_clients, db, now, [NoRnd EXCEPT !.id = 1]).result)
              \cap StoredSecrets = {}
    /\ \A inputs \in RegisterInputs :
       \A credentials \in generate_client_credentials(oauth_clients) :
          PlaintextsIn(call_tool("register_client", inputs, oauth_clients, db, now,
                                 [NoRnd EXCEPT !.credentials = credentials]).result)
              \cap StoredSecrets = {}

\* Two credentials are stored and one of them has just authenticated.
C7_Witness ==
    /\ Len(oauth_clients) = 2
    /\ lastOp.name = "authenticate"
    /\ response.status = "success"
    /\ disclosed = <<1, 1>>

\* C8: the client_secret_hash of every stored credential is the hash of the
\* secret generated at its registration and differs from that secret; and
\* authenticate_client succeeds on an active credential exactly for the
\* secrets whose hash is the stored one (presenting the stored hash fails).
C8_OnlyTheHashIsStored ==
    \A i \in 1..Len(oauth_clients) :
        LET row == oauth_clients[i]
        IN  /\ row.client_secret_hash = hash_secret(Secret(i))
            /\ row.client_secret_hash # Secret(i)
            /\ row.is_active =>
                  \A s \in PresentedSecrets :
                      (authenticate_client(oauth_clients, row.client_id, s, row.app_id,
                                           now, now, now).result.status = "success")
                          <=> (hash_secret(s) = row.client_secret_hash)
            /\ row.is_active =>
                  authenticate_client(oauth_clients, row.client_id, row.client_secret_hash,
                                      row.app_id, now, now, now).result.status = "error"

\* A credential authenticated with its secret; the table holds the hash.
C8_Witness ==
    /\ lastOp.name = "authenticate"
    /\ response.status = "success"
    /\ \E i \in 1..Len(oauth_clients) :
          /\ lastOp.arguments.client_id = oauth_clients[i].client_id
          /\ lastOp.arguments.client_secret = Secret(i)
          /\ oauth_clients[i].client_secret_hash = <<"sha256", Secret(i)>>

AllScopeLists == ScopeLists \cup {<<"write:vitals", "read:vitals">>, <<"read:vitals">>}

\* C9: for every client_id, app_id, role and scope list (the empty one
\* included), validate_token on create_access_token's token, at any time
\* before its expiry, returns valid with exactly these four values, the
\* scopes in the same order; so it does for every token issued.
C9_TokenRoundTrip ==
    /\ \A c \in ClientIds : \A a \in AppIds : \A r \in Roles : \A s \in AllScopeLists :
       \A t_iat \in {t \in Instants : now <= t /\ t <= now + MaxSkew} :
       \A t \in Instants :
          LET token == create_access_token(c, a, r, s, now, t_iat)
          IN  (t_iat <= t /\ t < token.payload.exp) =>
                  validate_token(token, t)
                      = [valid |-> TRUE, client_id |-> c, app_id |-> a, role |-> r,
                         scopes |-> s]
    /\ \A i \in issued :
          now < i.token.payload.exp =>
              validate_token(i.token, now)
                  = [valid |-> TRUE, client_id |-> i.client_id, app_id |-> i.app_id,
                     role |-> i.role, scopes |-> i.scopes]

\* validate_token returned the claims of an issued token whose scope list is empty.
C9_Witness ==
    /\ lastOp.name = "validate_token"
    /\ \E i \in issued :
          /\ lastOp.arguments = [access_token |-> i.token]
          /\ i.scopes = << >>
          /\ response = [valid |-> TRUE, client_id |-> i.client_id, app_id |-> i.app_id,
                         role |-> i.role, scopes |-> << >>]

\* C10: a token the server did not sign (a signed token with its role, its
\* exp or its signature altered or its algorithm set to none, a token signed
\* with another key, a string that is no JWT) is rejected by validate_token
\* with the invalid-token error at every time, and validate_token returns
\* claims only for tokens the server signed.
C10_UnsignedTokensRejected ==
    /\ \A token \in UnsignedTokens : validate_token(token, now) = Rejected
    /\ (lastOp.name = "validate_token" /\ response.valid) =>
          get_access_token(lastOp.arguments) \in IssuedTokens

\* validate_token was called on a valid token with its role altered and rejected it.
C10_Witness ==
    /\ lastOp.name = "validate_token"
    /\ \E i \in issued :
          /\ lastOp.arguments = [access_token |-> with_role_altered(i.token)]
          /\ validate_token(i.token, now).valid
    /\ response = Rejected


\* The verdict of the JWT library on an expiry at the current time.
Unexpired(exp) == IF expiresAtExp THEN now < exp ELSE now <= exp

\* C11: require_role(token, allowed) is true exactly when validate_token
\* accepts the token and the role embedded in it is one of allowed: for a
\* token the server issued, exactly when it has not expired and its role is
\* allowed; for an expired token, an altered one, one signed with another
\* key or one that is no JWT it is false whatever the roles allowed; and it
\* always returns a boolean.
C11_RoleOnlyOfValidToken ==
    /\ \A token \in AllTokens : \A allowed \in SUBSET Roles :
          LET v == validate_token(token, now)
          IN  /\ require_role(token, allowed, now) \in BOOLEAN
              /\ require_role(token, allowed, now) <=> (v.valid /\ v.role \in allowed)
    /\ \A i \in issued : \A allowed \in SUBSET Roles :
          require_role(i.token, allowed, now)
              <=> (Unexpired(i.token.payload.exp) /\ i.role \in allowed)
    /\ \A token \in UnsignedTokens : \A allowed \in SUBSET Roles :
          ~require_role(token, allowed, now)
    /\ lastOp.name = "require_role" => response.value \in BOOLEAN

\* require_role was asked about an expired token whose role is allowed: false.
C11_Witness ==
    /\ lastOp.name = "require_role"
    /\ \E i \in issued :
          /\ lastOp.arguments.token = i.token
          /\ i.role \in lastOp.arguments.required_roles
          /\ now > i.token.payload.exp
    /\ response = [value |-> FALSE]

\* C12: for a token authenticate_client issued for a credential registered
\* with the scope list S, require_scope(token, x) is true exactly when the
\* token has not expired and x is an element of S; for an expired token, an
\* altered one, one signed with another key or one that is no JWT it is
\* false for every x; and it always returns a boolean.
C12_ScopeOnlyOfValidToken ==
    /\ \A i \in issued : \A S \in AllScopeLists : \A x \in ScopeNames :
          oauth_clients[i.row].scopes = json_dumps(S) =>
              (require_scope(i.token, x, now)
                  <=> (Unexpired(i.token.payload.exp) /\ x \in Range(S)))
    /\ \A i \in issued : \E S \in AllScopeLists : oauth_clients[i.row].scopes = json_dumps(S)
    /\ \A token \in AllTokens : \A x \in ScopeNames :
          /\ require_scope(token, x, now) \in BOOLEAN
          /\ ~validate_token(token, now).valid => ~require_scope(token, x, now)
    /\ lastOp.name = "require_scope" => response.value \in BOOLEAN

\* require_scope was asked for write:vitals about a valid token of a
\* credential registered with read:vitals and write:vitals: true.
C12_Witness ==
    /\ lastOp.name = "require_scope"
    /\ lastOp.arguments.required_scope = "write:vitals"
    /\ \E i \in issued :
          /\ lastOp.arguments.token = i.token
          /\ oauth_clients[i.row].scopes = json_dumps(<<"read:vitals", "write:vitals">>)
          /\ ~require_scope(i.token, "write:patients", now)
    /\ response = [value |-> TRUE]


WrongType == [valid |-> FALSE, error |-> "Invalid token type"]

\* C13: validate_token rejects, with the invalid-token-type error, every
\* unexpired token signed with the server's key whose type tag is missing
\* or is anything other than "access" ("refresh", "Access"), and returns
\* valid only for tokens whose type tag is "access".
C13_OnlyAccessTokens ==
    /\ \A base \in IssuedTokens \cup {create_access_token(1, "app_a", "doctor", << >>, now, now)} :
       \A token \in retyped(base) :
          Unexpired(token.payload.exp) => validate_token(token, now) = WrongType
    /\ \A token \in AllTokens \cup OtherTypeTokens :
          validate_token(token, now).valid =>
              /\ "type" \in DOMAIN token.payload
              /\ token.payload.type = "access"
    /\ (lastOp.name = "validate_token" /\ response.valid) =>
          get_access_token(lastOp.arguments).payload.type = "access"

\* validate_token was called on an unexpired, correctly signed token without
\* a type tag and rejected it.
C13_Witness ==
    /\ lastOp.name = "validate_token"
    /\ \E i \in issued :
          /\ lastOp.arguments = [access_token |-> without_type(i.token)]
          /\ validate_token(i.token, now).valid
    /\ response = WrongType


\* What register_client returns when the insert violates the uniqueness of
\* oauth_clients.client_id.
DuplicateClient ==
    [status |-> "error",
     message |-> "IntegrityError: UNIQUE constraint failed: oauth_clients.client_id"]

Colliding ==
    {[client_id |-> c, client_secret |-> Secret(Len(oauth_clients) + 1)] : c \in RegisteredIds}

\* C14: a register_client whose generated client_id a row already carries
\* returns the duplicate-client error dict and leaves the credential store
\* exactly as it was; after it, a register_client with a new client_id
\* succeeds and authenticate_client succeeds for every active credential
\* with its secret.
C14_DuplicateIsReported ==
    /\ [](\A inputs \in AllRegisterInputs : \A credentials \in Colliding :
            LET r == register_client(oauth_clients, inputs.app_id, inputs.app_name,
                                     inputs.role, inputs.scopes, credentials)
                again == register_client(r.clients, inputs.app_id, inputs.app_name,
                                         inputs.role, inputs.scopes, Fresh(r.clients))
            IN  /\ r.result = DuplicateClient
                /\ r.clients = oauth_clients
                /\ again.result.status = "success"
                /\ again.result.client_id = Len(oauth_clients) + 1
                /\ Len(again.clients) = Len(oauth_clients) + 1
                /\ \A i \in 1..Len(r.clients) :
                      r.clients[i].is_active =>
                          authenticate_client(r.clients, r.clients[i].client_id, Secret(i),
                                              r.clients[i].app_id, now, now, now
                                             ).result.status = "success")
    /\ [][(lastOp'.name = "register_client" /\ response' = DuplicateClient) =>
              oauth_clients' = oauth_clients]_vars

\* register_client has just reported a duplicate client_id; the credential
\* registered before it is intact and still authenticates.
C14_Witness ==
    /\ lastOp.name = "register_client"
    /\ response = DuplicateClient
    /\ Len(oauth_clients) = 1
    /\ oauth_clients[1].client_secret_hash = hash_secret(Secret(1))
    /\ authenticate_client(oauth_clients, oauth_clients[1].client_id, Secret(1),
                           oauth_clients[1].app_id, now, now, now).result.status = "success"


\* The columns of a credential row that are written once, at registration.
Registered(row) ==
    [client_id |-> row.client_id, client_secret_hash |-> row.client_secret_hash,
     app_id |-> row.app_id, app_name |-> row.app_name, role |-> row.role,
     scopes |-> row.scopes]

\* A step of register_client that inserted: one new row, active, at the end.
InsertedOne ==
    /\ lastOp'.name = "register_client"
    /\ response'.status = "success"
    /\ Len(oauth_clients') = Len(oauth_clients) + 1
    /\ SubSeq(oauth_clients', 1, Len(oauth_clients)) = oauth_clients
    /\ oauth_clients'[Len(oauth_clients')].is_active
    /\ oauth_clients'[Len(oauth_clients')].client_id = response'.client_id

\* A step of a successful authenticate_client: last_used of the one row
\* matched is set to the time of the call, nothing else changes.
StampedOne ==
    /\ lastOp'.name = "authenticate"
    /\ response'.status = "success"
    /\ \E i \in 1..Len(oauth_clients) :
          /\ matching_clients(oauth_clients, lastOp'.arguments.client_id,
                              lastOp'.arguments.app_id) = {i}
          /\ oauth_clients' = [oauth_clients EXCEPT ![i].last_used = now']

\* C15: a step of the program changes the credential store only by
\* register_client appending one active row or by a successful
\* authenticate_client setting last_used of the single row matched, which
\* every successful authenticate_client does; a failed authenticate_client,
\* validate_token and every record-access tool leave the store as it is; no
\* step at all removes a row or changes a row's client_id, app_id, role,
\* scopes or secret hash.
C15_StoreFrame ==
    /\ [][/\ Len(oauth_clients') >= Len(oauth_clients)
          /\ \A i \in 1..Len(oauth_clients) :
                Registered(oauth_clients'[i]) = Registered(oauth_clients[i])
          /\ lastOp'.name # "deactivate" =>
                \/ InsertedOne
                \/ StampedOne
                \/ /\ oauth_clients' = oauth_clients
                   /\ ~(lastOp'.name = "authenticate" /\ response'.status = "success")
                   /\ ~(lastOp'.name = "register_client" /\ response'.status = "success")
         ]_vars
    /\ [](/\ \A c \in ClientIds : \A secret \in PresentedSecrets : \A a \in AppIds :
                LET r == authenticate_client(oauth_clients, c, secret, a, now, now, now)
                IN  r.result.status = "error" => r.clients = oauth_clients
          /\ \A token \in AllTokens :
                call_tool("validate_token", [access_token |-> token], oauth_clients, db,
                          now, NoRnd).clients = oauth_clients
          /\ \A name \in GatedNames : \A arguments \in GatedArguments(name) :
                call_tool(name, arguments, oauth_clients, db, now,
                          [NoRnd EXCEPT !.id = 1]).clients = oauth_clients)

\* With two credentials stored, the first has authenticated after time has
\* passed and the second has never been used.
C15_Witness ==
    /\ Len(oauth_clients) = 2
    /\ lastOp.name = "authenticate"
    /\ response.status = "success"
    /\ oauth_clients[1].client_id = lastOp.arguments.client_id
    /\ oauth_clients[1].last_used = now
    /\ now > 0
    /\ oauth_clients[2].last_used = NoTime


\* C16: in every reachable state the client_ids of the credential rows are
\* pairwise different, so for every client_id and app_id at most one row
\* matches (client_id, app_id, is_active = true): the query of
\* authenticate_client never has more than one candidate.
C16_AtMostOneCandidate ==
    /\ \A i, j \in 1..Len(oauth_clients) :
          oauth_clients[i].client_id = oauth_clients[j].client_id => i = j
    /\ \A c \in ClientIds : \A a \in AppIds :
          Cardinality(matching_clients(oauth_clients, c, a)) <= 1
    /\ (lastOp.name = "authenticate" /\ response.status = "success") =>
          Cardinality({i \in 1..Len(oauth_clients) :
                          oauth_clients[i].client_id = lastOp.arguments.client_id}) = 1

\* Two active credentials of the same application are stored and one of
\* them has authenticated.
C16_Witness ==
    /\ Len(oauth_clients) = 2
    /\ oauth_clients[1].app_id = oauth_clients[2].app_id
    /\ oauth_clients[1].is_active
    /\ oauth_clients[2].is_active
    /\ lastOp.name = "authenticate"
    /\ response.status = "success"
    /\ matching_clients(oauth_clients, lastOp.arguments.client_id,
                        lastOp.arguments.app_id) = {1}


\* C17: every token authenticate_client returned expires exactly 60 minutes
\* after its own issued-at, however the clock advanced during the call, and
\* the response that carried it says expires_in = 3600.
C17_ExpiresSixtyMinutesAfterIssue ==
    /\ \A i \in issued :
          i.token.payload.exp - i.token.payload.iat = ACCESS_TOKEN_EXPIRE_MINUTES * 60
    /\ (lastOp.name = "authenticate" /\ response.status = "success") =>
          /\ response.expires_in = ACCESS_TOKEN_EXPIRE_MINUTES * 60
          /\ response.access_token.payload.exp - response.access_token.payload.iat
                = ACCESS_TOKEN_EXPIRE_MINUTES * 60


\* C18: authenticate_client, register_client and validate_token never raise
\* to their caller: for every registered client_id, every secret and app_id
\* and every storage outcome (the query or the commit failing included)
\* each returns a result; so call_tool's except clause never has to answer
\* for authenticate.
C18_NeverRaise ==
    /\ \A c \in RegisteredIds : \A secret \in PresentedSecrets \cup {NumberSecret} :
       \A a \in AppIds : \A storage \in StorageOutcomes :
          ~authenticate_client_call(oauth_clients, c, secret, a, now, now, now,
                                    storage).raised
    /\ \A inputs \in RegisterInputs :
       \A credentials \in generate_client_credentials(oauth_clients) :
       \A storage \in StorageOutcomes :
          ~register_client_call(oauth_clients, inputs.app_id, inputs.app_name, inputs.role,
                                inputs.scopes, credentials, storage).raised
    /\ \A token \in AllTokens : validate_token(token, now).valid \in BOOLEAN
    /\ (lastOp.name = "authenticate" /\ binds("authenticate", lastOp.arguments)) =>
          "tool" \notin DOMAIN response


\* The calls that were made with the secret of the credential.
WithCorrectSecret == {p \in Processes : calls[p].pc # "idle"
                                          /\ calls[p].arguments.client_secret = Secret(1)}

\* C19: when two processes each run authenticate_client for the same active
\* credential with its correct secret, then in every interleaving of their
\* steps both return success with a token validate_token accepts, last_used
\* of the credential ends as the time one of the two calls wrote, and no
\* other column of the row and no other row changes.
C19_ConcurrentAuthenticate ==
    /\ \A p \in WithCorrectSecret :
          calls[p].pc = "done" =>
              /\ calls[p].result.status = "success"
              /\ validate_token(calls[p].result.access_token, now)
                    = [valid |-> TRUE, client_id |-> 1, app_id |-> "app_a",
                       role |-> oauth_clients[1].role,
                       scopes |-> json_loads(oauth_clients[1].scopes)]
              /\ Registered(oauth_clients[1]) = Registered(calls[p].client)
              /\ oauth_clients[1].is_active
    /\ (WithCorrectSecret = Processes /\ \A p \in Processes : calls[p].pc = "done") =>
          /\ \E p \in Processes : oauth_clients[1].last_used = calls[p].t_used
          /\ oauth_clients[1].last_used # NoTime
    /\ Len(oauth_clients) <= 1

\* Both calls have returned success; each had read the row before the other
\* committed, and they committed at different times.
C19_Witness ==
    /\ \A p \in Processes :
          /\ calls[p].pc = "done"
          /\ calls[p].result.status = "success"
          /\ calls[p].client.last_used = NoTime
    /\ calls["server.py"].t_used = 0
    /\ calls["sse_server.py"].t_used = 1
    /\ oauth_clients[1].last_used = 1


\* Everything a caller can present as a secret: the secrets of the generator
\* and, as strings of their own, the digests in the store.
SecretInputs == Secrets \cup PresentedSecrets

\* C20: verify_secret accepts every secret against its own hash_secret
\* digest and rejects it against the digest of any other secret; and the
\* digest stored when a credential was registered is the one hash_secret
\* gives for its secret at any later time, so verify_secret accepts that
\* secret, and no other, against the stored digest.
C20_HashVerifies ==
    /\ \A s \in SecretInputs : verify_secret(s, hash_secret(s))
    /\ \A s1, s2 \in SecretInputs :
          s1 # s2 => ~verify_secret(s1, hash_secret(s2))
    /\ \A i \in 1..Len(oauth_clients) : \A s \in SecretInputs :
          verify_secret(s, oauth_clients[i].client_secret_hash) <=> (s = Secret(i))

\* A credential that signed a token at time 0 authenticates again with its
\* secret at a later time, against the digest stored at its registration;
\* a second credential with another secret is in the store.
C20_Witness ==
    /\ lastOp.name = "authenticate"
    /\ response.status = "success"
    /\ lastOp.arguments.client_secret = Secret(1)
    /\ now > 0
    /\ \E x \in issued : x.row = 1 /\ x.t_exp = 0
    /\ Len(oauth_clients) = 2


(***************************************************************************)
(* Startup.                                                                *)
(***************************************************************************)
\* Importing auth.py and server.py: os.getenv binds SECRET_KEY to the
\* environment's value or to the built-in default and raises in neither
\* case; the log records written before the first request are those of
\* server.py, and they are the same whatever the environment holds.
startup(env) ==
    [raised |-> FALSE,
     SECRET_KEY |-> IF env = "" THEN DefaultSecretKey ELSE env,
     log |-> {[level |-> "INFO", subject |-> "database",
               message |-> "Database initialized"],
              [level |-> "INFO", subject |-> "transport",
               message |-> "Starting EPIC EHR MCP Server"]}]

\* A token has been signed or verified with SECRET_KEY.
KeyUsed ==
    \/ issued # {}
    \/ /\ lastOp.name \in RecordTools \cup {"validate_token"}
       /\ get_access_token(lastOp.arguments).kind = "jwt"

\* C21: when the environment provides no signing key, then before any token
\* is signed or verified either startup has failed or a log record says the
\* fallback key is in use; the built-in default is never used silently.
C21_NoSilentDefaultKey ==
    (JWT_SECRET_KEY = "" /\ KeyUsed) =>
        \/ startup(JWT_SECRET_KEY).raised
        \/ \E record \in startup(JWT_SECRET_KEY).log : record.subject = "signing key"


\* The credentials a register_client response handed out.
credentials_of(result, app_id) ==
    [client_id |-> result.client_id, client_secret |-> result.client_secret,
     app_id |-> app_id]

\* C25: call_tool dispatches authenticate, register_client and
\* validate_token without looking for an access token. For every app_id,
\* role and scope list, a caller that presents no token registers a client
\* and then authenticates with the credentials returned, and the token it
\* gets validates with exactly that role and those scopes; validate_token
\* without a token is answered by validate_token itself.
C25_AuthToolsNeedNoToken ==
    /\ \A inputs \in AllRegisterInputs :
          LET r == call_tool("register_client", inputs, oauth_clients, db, now,
                             [NoRnd EXCEPT !.credentials = Fresh(oauth_clients)])
              a == call_tool("authenticate", credentials_of(r.result, inputs.app_id),
                             r.clients, db, now, NoRnd)
          IN  /\ "access_token" \notin DOMAIN inputs
              /\ r.result.status = "success"
              /\ a.result.status = "success"
              /\ validate_token(a.result.access_token, now)
                    = [valid |-> TRUE, client_id |-> r.result.client_id,
                       app_id |-> inputs.app_id, role |-> inputs.role,
                       scopes |-> inputs.scopes]
    /\ call_tool("validate_token", << >>, oauth_clients, db, now, NoRnd).result
          = [valid |-> FALSE, error |-> "Invalid token"]
    /\ (lastOp.name \in AuthTools /\ "access_token" \notin DOMAIN lastOp.arguments) =>
          ("tool" \in DOMAIN response => response.message # "Access token required")

\* A caller registered a client and authenticated with what it got, without
\* presenting a token in either call; the token it holds is valid.
C25_Witness ==
    /\ lastOp.name = "authenticate"
    /\ "access_token" \notin DOMAIN lastOp.arguments
    /\ response.status = "success"
    /\ validate_token(response.access_token, now).valid
    /\ validate_token(response.access_token, now).role = oauth_clients[1].role
    /\ Len(oauth_clients) = 1


\* C22 as stated: while a GET /sse stream stays open the catalog is
\* announced again and again: at every point of an open stream a later
\* event carries the tools list.
C22_CatalogReannounced ==
    []<>(stream.open => carries_tools(stream.last))

\* C22: the first event of a GET /sse stream carries the tools list and
\* every later event is a ping that carries none; while the stream stays
\* open, after every point there is eventually another event.
C22_CatalogOnceThenHeartbeat ==
    /\ [](stream.events = 1 => carries_tools(stream.last))
    /\ [](stream.events = 2 =>
             /\ stream.last = heartbeat_event
             /\ stream.last.method = "ping"
             /\ ~carries_tools(stream.last))
    /\ []<>(~stream.open \/ stream.parity = 0)
    /\ []<>(~stream.open \/ stream.parity = 1)

\* An open stream has sent the catalog and, after it, two heartbeats.
C22_Witness ==
    /\ stream.open
    /\ stream.events = 2
    /\ stream.parity = 1
    /\ stream.last = [jsonrpc |-> "2.0", method |-> "ping"]


\* The JSON-RPC 2.0 requests whose method is none of the given ones.
RequestsOutside(methods) ==
    {r \in Requests : get(r, "jsonrpc", "None") = "2.0" /\ get(r, "method", "None") \notin methods}

NotFound(id) == [jsonrpc |-> "2.0", id |-> id, error |-> [code |-> -32601, message |-> "Method not found"]]

\* C23: a JSON-RPC 2.0 request whose method the transport does not handle
\* (POST /mcp handles initialize, tools/list and tools/call, the WebSocket
\* loop tools/list and tools/call) is answered with error -32601 under the
\* request's id, and call_tool is not invoked: no handler runs and both
\* stores stay as they are.
C23_MethodNotFound ==
    /\ \A r \in RequestsOutside({"initialize", "tools/list", "tools/call"}) :
          LET e == mcp_jsonrpc_endpoint(r, oauth_clients, db, now, NoRnd)
          IN  /\ e.response = [http |-> 200, body |-> NotFound(get(r, "id", NoId))]
              /\ ~e.called /\ e.handler = "none"
              /\ e.clients = oauth_clients /\ e.db = db /\ e.signed = << >>
    /\ \A r \in RequestsOutside({"tools/list", "tools/call"}) :
          LET e == websocket_message(r, oauth_clients, db, now, NoRnd)
          IN  /\ e.response = NotFound(get(r, "id", NoId))
              /\ ~e.escaped
              /\ ~e.called /\ e.handler = "none"
              /\ e.clients = oauth_clients /\ e.db = db /\ e.signed = << >>
    /\ (lastOp.name = "websocket" /\ lastOp.arguments \in RequestsOutside({"tools/list", "tools/call"})) =>
          /\ response = NotFound(lastOp.arguments.id)
          /\ ~lastOp.called
          /\ handler = "none"
          /\ websocket.open

\* The connection received "invalid/method" with id "3" while a credential
\* and a token existed, and answered -32601 under that id.
C23_Witness ==
    /\ lastOp.name = "websocket"
    /\ lastOp.arguments = [jsonrpc |-> "2.0", id |-> "3", method |-> "invalid/method"]
    /\ response.id = "3"
    /\ response.error.code = -32601
    /\ issued # {}


\* The requests to POST /mcp that must be answered with a result: tools/list,
\* and tools/call naming a tool with a token validate_token accepts.
Answerable(r, t) ==
    /\ get(r, "jsonrpc", "None") = "2.0"
    /\ \/ get(r, "method", "None") = "tools/list"
       \/ /\ get(r, "method", "None") = "tools/call"
          /\ "params" \in DOMAIN r
          /\ is_dict(r.params)
          /\ named(get(r.params, "name", NoName))
          /\ "arguments" \in DOMAIN r.params
          /\ is_dict(r.params.arguments)
          /\ get_access_token(r.params.arguments).kind = "jwt"
          /\ validate_token(get_access_token(r.params.arguments), t).valid

\* C24: every response of POST /mcp to a body that is a JSON object carries
\* jsonrpc "2.0" and the id of the request (null when the request has none);
\* to tools/list, and to tools/call naming a tool with a valid token, the
\* response has a result member and no error member.
C24_ResponseEchoesId ==
    /\ \A r \in Requests :
          LET e == mcp_jsonrpc_endpoint(r, oauth_clients, db, now, [NoRnd EXCEPT !.id = 1])
          IN  /\ e.response.http = 200
              /\ e.response.body.jsonrpc = "2.0"
              /\ e.response.body.id = get(r, "id", NoId)
              /\ Answerable(r, now) =>
                    /\ "result" \in DOMAIN e.response.body
                    /\ "error" \notin DOMAIN e.response.body
    /\ (lastOp.name = "POST /mcp" /\ is_dict(lastOp.arguments)) =>
          /\ response.body.jsonrpc = "2.0"
          /\ response.body.id = get(lastOp.arguments, "id", NoId)
          /\ Answerable(lastOp.arguments, now) =>
                /\ "result" \in DOMAIN response.body
                /\ "error" \notin DOMAIN response.body

\* POST /mcp answered a tools/call of get_patient that carried a valid
\* token: a result under the request's id.
C24_Witness ==
    /\ lastOp.name = "POST /mcp"
    /\ is_dict(lastOp.arguments)
    /\ lastOp.arguments.method = "tools/call"
    /\ Answerable(lastOp.arguments, now)
    /\ lastOp.called
    /\ handler = "get_patient"
    /\ response.body.id = "3"
    /\ "result" \in DOMAIN response.body


\* The argument dict carries an access_token that validate_token rejects.
CarriesBadToken(arguments, t) ==
    /\ is_dict(arguments)
    /\ get_access_token(arguments).kind \in {"jwt", "text"}
    /\ ~validate_token(get_access_token(arguments), t).valid

\* C26: when the arguments of a POST /call, or of a tools/call sent to
\* POST /mcp, carry an access_token that validate_token rejects, the
\* endpoint answers with its invalid-access-token error (HTTP 401, JSON-RPC
\* error -32001) and does not invoke call_tool.
C26_BadTokenRefusedByEndpoint ==
    /\ (/\ lastOp.name = "POST /call"
        /\ is_dict(lastOp.arguments)
        /\ named(get(lastOp.arguments, "tool", NoName))
        /\ CarriesBadToken(get(lastOp.arguments, "arguments", << >>), now)) =>
          /\ response = [http |-> 401, detail |-> "Invalid access token"]
          /\ ~lastOp.called
    /\ (/\ lastOp.name = "POST /mcp"
        /\ is_dict(lastOp.arguments)
        /\ get(lastOp.arguments, "jsonrpc", "None") = "2.0"
        /\ get(lastOp.arguments, "method", "None") = "tools/call"
        /\ is_dict(get(lastOp.arguments, "params", << >>))
        /\ named(get(lastOp.arguments.params, "name", NoName))
        /\ CarriesBadToken(get(lastOp.arguments.params, "arguments", << >>), now)) =>
          /\ response.body = jsonrpc_error(lastOp.arguments.id, -32001, "Invalid access token")
          /\ ~lastOp.called


\* A tools/list or tools/call request that is well formed: a JSON-RPC 2.0
\* object with an id and, for tools/call, params that name a tool and carry
\* an argument dict.
WellFormed(message) ==
    /\ is_dict(message)
    /\ get(message, "jsonrpc", "None") = "2.0"
    /\ "id" \in DOMAIN message
    /\ \/ get(message, "method", "None") = "tools/list"
       \/ /\ get(message, "method", "None") = "tools/call"
          /\ is_dict(get(message, "params", NotADict))
          /\ named(get(message.params, "name", NoName))
          /\ is_dict(get(message.params, "arguments", NotADict))

\* C30: on one WebSocket connection no failing message (no JSON, JSON that
\* is no object, an unknown method, a tool error) ends the message loop:
\* after any number of them the loop is still running, and a well-formed
\* tools/list or tools/call that follows is answered under its id.
C30_LoopSurvivesFailures ==
    /\ websocket.failures > 0 => websocket.open
    /\ (/\ websocket.failures > 0
        /\ lastOp.name = "websocket"
        /\ WellFormed(lastOp.arguments)) =>
          /\ response # NoMessage
          /\ response.id = lastOp.arguments.id


(***************************************************************************)
(* Appointments: one slot, one booking.                                    *)
(***************************************************************************)
\* The scheduled appointments of a provider at a date and time.
scheduled_at(tables, npi, date, time) ==
    {i \in 1..Len(tables.appointments) :
        /\ tables.appointments[i].npi = npi
        /\ tables.appointments[i].date = date
        /\ tables.appointments[i].time = time
        /\ tables.appointments[i].status = "scheduled"}

NoDoubleBooking(tables) ==
    \A i, j \in 1..Len(tables.appointments) :
        (/\ tables.appointments[i].status = "scheduled"
         /\ j \in scheduled_at(tables, tables.appointments[i].npi,
                               tables.appointments[i].date, tables.appointments[i].time))
            => i = j

\* The slot of a call is taken and nothing else stops the call earlier.
Booked(tables, args) ==
    /\ find_patient(tables, args.mrn) # {}
    /\ args.provider_npi \in tables.providers
    /\ strptime(args.date) # NoDate
    /\ scheduled_at(tables, args.provider_npi, strptime(args.date), args.time) # {}

\* C27: with schedule_appointment calls made one at a time from a store
\* without conflicts, no two scheduled appointments share provider, date
\* and time; a call for a booked slot fails with "Time slot already booked"
\* and inserts nothing.
C27_NoDoubleBooking ==
    /\ NoDoubleBooking(db)
    /\ \A args \in ScheduleArguments : \A apt_id \in GeneratedIds(db.appointments) :
           LET r == schedule_appointment_tool(db, args, apt_id)
           IN  /\ NoDoubleBooking(r.db)
               /\ Booked(db, args) =>
                      /\ r.raised
                      /\ r.message = "Time slot already booked"
                      /\ r.db = db
    /\ (/\ lastOp.name = "schedule_appointment"
        /\ response.status = "error"
        /\ response.message = "Time slot already booked")
           => Booked(db, lastOp.arguments)

\* A call for a booked slot, written with the other text of the same date,
\* was refused while two slots are booked.
C27_Witness ==
    /\ lastOp.name = "schedule_appointment"
    /\ response.status = "error"
    /\ response.message = "Time slot already booked"
    /\ lastOp.arguments.date = "2025-1-15"
    /\ \E i, j \in 1..Len(db.appointments) :
           /\ i # j
           /\ db.appointments[i].status = "scheduled"
           /\ db.appointments[j].status = "scheduled"

(***************************************************************************)
(* Write tools that fail.                                                  *)
(***************************************************************************)
\* The failures of the write tools: an unparsable dob, an unknown patient,
\* an unknown provider, a booked slot.
Fails(name, tables, args) ==
    CASE name = "create_patient" -> strptime(args.dob) = NoDate
      [] name = "schedule_appointment" ->
             \/ find_patient(tables, args.mrn) = {}
             \/ args.provider_npi \notin tables.providers
             \/ Booked(tables, args)
      [] OTHER -> find_patient(tables, args.mrn) = {}

WriteArguments(name) ==
    CASE name = "create_patient" ->
             {[first_name |-> "Ada", last_name |-> "Doe", dob |-> dob] :
                 dob \in {"2025-01-15", "tomorrow"}}
      [] name = "schedule_appointment" -> ScheduleArguments
      [] OTHER -> {tool_arguments(name, mrn) : mrn \in MRNs}

FailedWritesChangeNothing ==
    \A name \in WriteTools : \A arguments \in WriteArguments(name) :
        Fails(name, db, arguments) =>
            \A presented \in Presented(arguments) : \A id \in {1, 2, 3} :
                LET c == call_tool(name, presented, oauth_clients, db, now,
                                   [NoRnd EXCEPT !.id = id])
                IN  /\ c.result.status = "error"
                    /\ c.result.tool = name
                    /\ c.db = db
                    /\ c.clients = oauth_clients

\* C29: a write tool that fails leaves every stored record unchanged, and
\* call_tool reports the failure as a status:error result.
C29_FailedWriteLeavesRecords ==
    /\ []FailedWritesChangeNothing
    /\ [][(lastOp'.name \in WriteTools /\ response'.status = "error")
             => (db' = db /\ oauth_clients' = oauth_clients)]_vars

\* A create_patient with an unparsable dob, called with a token that passes,
\* was reported as an error.
C29_Witness ==
    /\ lastOp.name = "create_patient"
    /\ lastOp.arguments.dob = "tomorrow"
    /\ handler = "create_patient"
    /\ response.status = "error"
    /\ response.tool = "create_patient"


(***************************************************************************)
(* Appointments booked by two processes at once.                           *)
(***************************************************************************)
SameSlot(a, b) ==
    /\ a.provider_npi = b.provider_npi
    /\ strptime(a.date) = strptime(b.date)
    /\ a.time = b.time

Succeeded(p) == calls[p].pc = "done" /\ calls[p].result.status = "success"

\* C28: when the two server processes handle two schedule_appointment calls
\* for the same provider, date and time concurrently, at most one of the
\* calls succeeds and at most one scheduled appointment exists for the slot.
C28_ConcurrentBookingExcludes ==
    /\ NoDoubleBooking(db)
    /\ \A p, q \in Processes :
           (/\ p # q
            /\ Succeeded(p)
            /\ Succeeded(q))
               => ~SameSlot(calls[p].arguments, calls[q].arguments)

====
